---- MODULE Spec2Model ----
(***************************************************************************)
(* Model of the coal-pile self-ignition dashboard front end                *)
(* (GodofRussia/spontaneous-combustion-prediction, src/frontend).          *)
(*                                                                         *)
(* Conventions.                                                            *)
(*  - A JavaScript value that may be null/undefined is a sequence of       *)
(*    length at most one: None is null/undefined, Some(x) is x.            *)
(*  - A date string of the prediction service has the form                 *)
(*    "YYYY-MM-DDT00:00:00" (src/backend/README.md:229): a local date-time *)
(*    with no zone, so `new Date(s).getFullYear()` is YYYY in every time   *)
(*    zone.  It is the record [kind |-> "string", ymd |-> <<Y, M, D>>];    *)
(*    an absent date is [kind |-> "undefined", ymd |-> <<>>] and a Date    *)
(*    object is [kind |-> "Date", ymd |-> ...] (ymd = <<>>: Invalid Date). *)
(*  - Message texts are written in ASCII (the source's are Russian).       *)
(*  - A template string is the tuple of its pieces.                        *)
(***************************************************************************)
EXTENDS Integers, Sequences, FiniteSets, Bags, TLC

None == <<>>
Some(x) == <<x>>

(***************************************************************************)
(* Bounds of the model.                                                    *)
(***************************************************************************)
\* longest prediction list a /predict response carries
MaxPreds == 2
\* longest matched_predictions list an /evaluate response carries
MaxMatches == 2
\* longest prediction list found under the storage key 'predictions'
MaxStored == 2
\* files dropped on the controls of Dashboard
MaxFiles == 3
\* files of one drop on the weather control
MaxBatch == 2
\* predictions whose navigation timer is pending at the same time
MaxNavigations == 1
\* calls pending at the same time whose page instance has been replaced
MaxOrphans == 1

\* new Date().getFullYear(): the year the page is opened in
ThisYear == 2025

PileIds == {1, 2}
RiskLevels == {"critical", "high", "medium", "low"}
Undefined == "undefined"

VARIABLES
  \* PredictionsCalendar: React state
  predictions, selectedPrediction, loading, dateRange, currentYear,
  availableYears, realFiresData, showComparison, evaluationMetrics,
  selectedPiles, availablePiles,
  \* PredictionsCalendar: the calendar entry clicked last, if any
  clickedEntry,
  \* PredictionsCalendar: the calls in flight and the last alert() text
  fetchCall, evaluateCall, alertText,
  \* DatePileMatrix: whether the page is mounted, and its React state
  matrixMounted, matrixPredictions, selectedDate, pilesForDate, availableDates,
  dateStats,
  \* DatePileMatrix: the effects of the last commit that have not run yet
  \* ("mount": both effects of the first commit, "stats": the effect on
  \* [selectedDate, predictions], "none")
  matrixEffects,
  \* Dashboard: whether it is on screen, its useState values, the state of
  \* its triggerPrediction call and its pending setTimeout callbacks
  dashboardMounted, files, predicting, dashboardError, success, dashboardDateRange,
  predictCall, successTimers, navigateTimers,
  \* FileUpload, per control: its useState values, the files of the batch its
  \* drop handler has still to look at, the file whose upload it awaits and
  \* how its last upload ended; the control whose handler is running; the
  \* number of files dropped so far
  uploading, error, queue, uploadCall, lastUpload, running, dropped,
  \* FileUpload, per control: the acceptedFiles of its last drop and what its
  \* handler has done with them since, in order (a file refused by the
  \* validation, a call of onUpload, the settling of that call)
  accepted, trace,
  \* validateCSVFile: the build's VITE_MAX_FILE_SIZE, the file handed in and
  \* the result returned
  viteMaxFileSize, file, validation,
  \* calculateMetricsSummary: the argument, whether it has returned, the result
  metrics, summaryReturned, summary,
  \* what the metrics panel of the calendar, the table of ModelMetrics and
  \* MetricsChart render for that argument
  rendered,
  \* the display formatters: the value and the `decimals` handed in, and what
  \* each formatter returned for them
  formatArg, formatDecimals, formatted,
  \* the display formatters: the time zone of the browser, in minutes east
  \* of UTC
  timeZone,
  \* window.localStorage
  localStorage,
  \* the date_range field of the /predict response that arrived last, once
  \* one has arrived
  lastArrived,
  \* the handlers an exception has escaped from (an unhandled rejection)
  uncaught,
  \* the body the services answer a failing call with
  serviceError,
  \* start_all.sh: the statement it has reached, the machine it runs on
  \* (the ports in use, the commands not installed, whether logs/ can be
  \* made), the two processes it starts, whether the backend answers
  \* /health, the loop counter of the health poll, the exit status, the
  \* statement that ended the script, and which of its checks have passed
  scriptPc, portsInUse, commandsMissing, logsDirOk, backend, backendReady, frontend,
  attempt, exitStatus, exitCause, backendSeenAlive, healthAnswered,
  \* the router: the calls still pending whose page instance is gone and
  \* replaced (how many of each service function; for the uploads the
  \* control, the file awaited and the rest of its batch)
  orphanCalls, orphanUploads

calendarVars == <<predictions, selectedPrediction, clickedEntry, loading, dateRange, currentYear,
                  availableYears, realFiresData, showComparison, evaluationMetrics,
                  selectedPiles, availablePiles, fetchCall, evaluateCall, alertText>>

matrixVars == <<matrixMounted, matrixPredictions, selectedDate, pilesForDate,
                availableDates, dateStats, matrixEffects>>

validateVars == <<viteMaxFileSize, file, validation>>

metricsVars == <<metrics, summaryReturned, summary, rendered>>

formatVars == <<formatArg, formatDecimals, formatted, timeZone>>

scriptVars == <<scriptPc, portsInUse, commandsMissing, logsDirOk, backend, backendReady,
                frontend, attempt, exitStatus, exitCause, backendSeenAlive, healthAnswered>>

routerVars == <<orphanCalls, orphanUploads>>

dashboardVars == <<dashboardMounted, files, predicting, dashboardError, success,
                   dashboardDateRange, predictCall, successTimers, navigateTimers,
                   uploading, error, queue, uploadCall, lastUpload, running, dropped,
                   accepted, trace>>

\* what a handler of the calendar page leaves alone (it may write the storage)
nonCalendarVars == <<matrixVars, validateVars, metricsVars, formatVars, dashboardVars, serviceError, scriptVars, routerVars>>

\* what a handler of Dashboard leaves alone (it may write the storage)
nonDashboardVars == <<calendarVars, matrixVars, validateVars, metricsVars, formatVars, uncaught,
                      serviceError, scriptVars, routerVars>>

\* what the matrix page leaves alone
nonMatrixVars == <<calendarVars, validateVars, metricsVars, formatVars, dashboardVars, localStorage,
                   lastArrived, uncaught, serviceError, scriptVars, routerVars>>

nonScriptVars == <<calendarVars, matrixVars, validateVars, metricsVars, formatVars,
                   dashboardVars, localStorage, lastArrived, uncaught, serviceError,
                   routerVars>>

vars == <<calendarVars, matrixVars, validateVars, metricsVars, formatVars, dashboardVars,
          localStorage, lastArrived, uncaught, serviceError, scriptVars, routerVars>>

(***************************************************************************)
(* Values.                                                                 *)
(***************************************************************************)
DateString(y, m, d) == [kind |-> "string", ymd |-> <<y, m, d>>]
NoDate == [kind |-> "undefined", ymd |-> <<>>]
\* a string that is no ISO date
InvalidDateString == [kind |-> "string", ymd |-> <<>>]

\* new Date(v): of a date string, of undefined (Invalid Date), of a Date
NewDate(v) == [kind |-> "Date", ymd |-> v.ymd]

\* Date.prototype.getFullYear: None is NaN
getFullYear(date) == IF date.ymd = <<>> THEN None ELSE Some(date.ymd[1])

\* JSON.stringify(x) / a stored text that is no JSON
JSONstringify(x) == [kind |-> "json", value |-> x]
CorruptText == [kind |-> "text", value |-> "{corrupt"]
TrueText == [kind |-> "text", value |-> "true"]
\* JSON.parse(s) throws on a text that is no JSON
JSONparseThrows(s) == s.kind # "json"
JSONparse(s) == s.value

\* [...new Set(xs)].sort((a, b) => a - b) for a set of integers
RECURSIVE SortedSeq(_)
SortedSeq(S) ==
  IF S = {} THEN <<>>
  ELSE LET m == CHOOSE x \in S : \A y \in S : x <= y
       IN <<m>> \o SortedSeq(S \ {m})

Range(s) == {s[i] : i \in 1..Len(s)}

\* all sequences over S of length at most n
SeqsUpTo(S, n) == UNION {[1..k -> S] : k \in 0..n}

(***************************************************************************)
(* services/dataProcessor.js                                               *)
(***************************************************************************)
\* mutant: high is drawn in the colour of critical
getRiskColor_highAsCritical(riskLevel) ==
  CASE riskLevel \in {"critical", "high"} -> "#dc2626"
    [] riskLevel = "medium" -> "#eab308"
    [] OTHER -> "#16a34a"

getRiskColor(riskLevel) ==
  CASE riskLevel = "critical" -> "#dc2626"
    [] riskLevel = "high" -> "#ea580c"
    [] riskLevel = "medium" -> "#eab308"
    [] OTHER -> "#16a34a"

\* mutant: the entry's colour is worked out from the days to fire
calendarEntry_recomputesRisk(pred) ==
  [id |-> <<"pile_", pred.pile_id>>,
   title |-> <<"Pile #", pred.pile_id, " - ", pred.coal_grade, "\nStockyard ",
               pred.stockyard, " | ", pred.predicted_days_to_fire_rounded, " days">>,
   start |-> pred.predicted_fire_date,
   extendedProps |-> [pileId |-> pred.pile_id,
                      daysToFire |-> pred.predicted_days_to_fire_rounded] @@ pred,
   backgroundColor |-> getRiskColor(IF pred.predicted_days_to_fire_rounded <= 1
                                   THEN "critical" ELSE pred.risk_level),
   borderColor |-> getRiskColor(IF pred.predicted_days_to_fire_rounded <= 1
                                   THEN "critical" ELSE pred.risk_level)]

calendarEntry(pred) ==
  [id |-> <<"pile_", pred.pile_id>>,
   title |-> <<"Pile #", pred.pile_id, " - ", pred.coal_grade, "\nStockyard ",
               pred.stockyard, " | ", pred.predicted_days_to_fire_rounded, " days">>,
   start |-> pred.predicted_fire_date,
   extendedProps |-> [pileId |-> pred.pile_id,
                      daysToFire |-> pred.predicted_days_to_fire_rounded] @@ pred,
   backgroundColor |-> getRiskColor(pred.risk_level),
   borderColor |-> getRiskColor(pred.risk_level)]

\* mutant: one entry per pile id (the entries' ids are pile_<id>), later
\* records of a pile dropped
processCalendarEvents_onePerPile(preds) ==
  LET firstOfPile == SelectSeq([i \in 1..Len(preds) |-> <<i, preds[i]>>],
                               LAMBDA x : \A k \in 1..(x[1] - 1) : preds[k].pile_id # x[2].pile_id)
  IN [i \in 1..Len(firstOfPile) |-> calendarEntry(firstOfPile[i][2])]

processCalendarEvents(preds) == [i \in 1..Len(preds) |-> calendarEntry(preds[i])]

\* the default of `import.meta.env.VITE_MAX_FILE_SIZE || 52428800`
DefaultMaxFileSize == 52428800

\* file.name.endsWith('.csv'), a name being the tuple of its characters
endsWithCsv(name) ==
  Len(name) >= 4 /\ SubSeq(name, Len(name) - 3, Len(name)) = <<".", "c", "s", "v">>

\* Math.floor(Math.log(bytes) / Math.log(1024)) for 0 < bytes < 1024^3
unitIndex(bytes) ==
  IF bytes < 1024 THEN 0 ELSE IF bytes < 1024 * 1024 THEN 1 ELSE 2

\* formatFileSize(bytes), bytes < 1024^3: the number (in hundredths, rounded
\* half up) and the unit of the text. `text` tells that bytes is the text of
\* the number, as a build setting is: `bytes === 0` is then false, and
\* Math.log("0") makes the result "NaN undefined"
formatFileSize(bytes, text) ==
  IF bytes = 0 THEN IF text THEN <<"NaN", Undefined>> ELSE <<0, "Bytes">>
  ELSE LET i == unitIndex(bytes)
           k == IF i = 0 THEN 1 ELSE IF i = 1 THEN 1024 ELSE 1024 * 1024
           hundredths == (bytes \div k) * 100 + ((bytes % k) * 200 + k) \div (2 * k)
       IN <<hundredths, <<"Bytes", "KB", "MB">>[i + 1]>>

\* mutant: a file of exactly the maximum size is refused
validateCSVFile_sizeInclusive(f, env) ==
  LET maxSize == IF env # None THEN env[1] ELSE DefaultMaxFileSize
  IN IF ~endsWithCsv(f.name)
     THEN [valid |-> FALSE, error |-> Some(<<"The file must be a CSV file">>)]
     ELSE IF f.size >= maxSize
          THEN [valid |-> FALSE,
                error |-> Some(<<"The file size must not exceed ",
                                 formatFileSize(maxSize, env # None)>>)]
          ELSE [valid |-> TRUE, error |-> None]

\* validateCSVFile(file) in a build whose VITE_MAX_FILE_SIZE is env: None when
\* it is not set, Some(n) when it is the text of the number n (a text is
\* truthy even when it is "0")
validateCSVFile(f, env) ==
  LET maxSize == IF env # None THEN env[1] ELSE DefaultMaxFileSize
  IN IF ~endsWithCsv(f.name)
     THEN [valid |-> FALSE, error |-> Some(<<"The file must be a CSV file">>)]
     ELSE IF f.size > maxSize
          THEN [valid |-> FALSE,
                error |-> Some(<<"The file size must not exceed ",
                                 formatFileSize(maxSize, env # None)>>)]
          ELSE [valid |-> TRUE, error |-> None]

\* the acceptance threshold of `metrics.accuracy_pm2 >= 0.7`, in 1/10000
TargetAccuracy == 7000

\* Number.prototype.toFixed(digits) of a number given in 1/10000 that is no
\* rounding tie: the digits of the text, as the number of 10^-digits units
toFixed(value, digits) ==
  LET unit == IF digits = 2 THEN 100 ELSE IF digits = 1 THEN 1000 ELSE 10000
  IN <<"fixed", (2 * value + unit) \div (2 * unit), digits>>

\* mutant: the target is met only above the threshold
calculateMetricsSummary_strict(m) ==
  IF m = None THEN None
  ELSE Some([mae |-> IF m[1].mae # None THEN toFixed(m[1].mae[1], 2) ELSE <<"N/A">>,
             accuracyPm2 |-> IF m[1].accuracy_pm2 # None
                             THEN toFixed(m[1].accuracy_pm2[1] * 100, 1) \o <<"%">>
                             ELSE <<"NaN", "%">>,
             totalPredictions |-> IF m[1].total_predictions # None
                                  THEN m[1].total_predictions[1] ELSE 0,
             correctPm2 |-> IF m[1].correct_pm2 # None THEN m[1].correct_pm2[1] ELSE 0,
             meetsTarget |-> m[1].accuracy_pm2 # None
                             /\ m[1].accuracy_pm2[1] > TargetAccuracy])

\* calculateMetricsSummary(metrics): None is null/undefined, a missing field
\* of the object is None, mae and the accuracies are numbers in 1/10000
calculateMetricsSummary(m) ==
  IF m = None THEN None
  ELSE Some([mae |-> IF m[1].mae # None THEN toFixed(m[1].mae[1], 2) ELSE <<"N/A">>,
             accuracyPm2 |-> IF m[1].accuracy_pm2 # None
                             THEN toFixed(m[1].accuracy_pm2[1] * 100, 1) \o <<"%">>
                             ELSE <<"NaN", "%">>,
             totalPredictions |-> IF m[1].total_predictions # None
                                  THEN m[1].total_predictions[1] ELSE 0,
             correctPm2 |-> IF m[1].correct_pm2 # None THEN m[1].correct_pm2[1] ELSE 0,
             meetsTarget |-> m[1].accuracy_pm2 # None
                             /\ m[1].accuracy_pm2[1] >= TargetAccuracy])

\* JavaScript values handed to a formatter: null, undefined, NaN, a number
\* (in 1/10000), a string, an ISO date string (its day as yyyymmdd)
JsNull == [kind |-> "null", number |-> 0, text |-> ""]
JsUndefined == [kind |-> "undefined", number |-> 0, text |-> ""]
JsNaN == [kind |-> "NaN", number |-> 0, text |-> ""]
JsNumber(n) == [kind |-> "number", number |-> n, text |-> ""]
JsString(t) == [kind |-> "string", number |-> 0, text |-> t]
JsIsoDate(day) == [kind |-> "isoDate", number |-> day, text |-> ""]

\* `!value`
falsy(value) ==
  \/ value.kind \in {"null", "undefined", "NaN"}
  \/ value.kind = "number" /\ value.number = 0
  \/ value.kind = "string" /\ value.text = ""

\* `value === null || value === undefined || Number.isNaN(value)`
isMissing(value) == value.kind \in {"null", "undefined", "NaN"}

\* the placeholder, an em dash in the source
Dash == "--"

\* what a call that throws is recorded as
Throws(exception) == <<"throws", exception>>

\* the milliseconds since the epoch a number (in 1/10000) stands for when
\* date-fns takes it for a timestamp: new Date(number) drops the fraction,
\* towards zero
epochMs(value) ==
  IF value.number >= 0 THEN value.number \div 10000 ELSE -((-value.number) \div 10000)

\* the reading of the local clock at a timestamp, as milliseconds since the
\* local midnight that began 1970-01-01; zone is in minutes east of UTC
localMs(ms, zone) == ms + zone * 60000

\* the calendar day that lies z days after 1970-01-01, as <<d, m, y>>
civilFromDays(z) ==
  LET era == (z + 719468) \div 146097
      doe == (z + 719468) - era * 146097
      yoe == (doe - doe \div 1460 + doe \div 36524 - doe \div 146096) \div 365
      doy == doe - (365 * yoe + yoe \div 4 - yoe \div 100)
      mp == (5 * doy + 2) \div 153
      d == doy - (153 * mp + 2) \div 5 + 1
      m == IF mp < 10 THEN mp + 3 ELSE mp - 9
      y == yoe + era * 400 + (IF m <= 2 THEN 1 ELSE 0)
  IN <<d, m, y>>

\* 'HH:mm' of a reading of the local clock, as hours and minutes
clockOf(local) ==
  LET minutes == (local % 86400000) \div 60000
  IN <<minutes \div 60, ":", minutes % 60>>

\* a timestamp date-fns can format: within 100,000,000 days of the epoch
validTime(ms) == ms \div 86400000 >= -100000000 /\ ms \div 86400000 < 100000000

\* format(dateObj, 'dd.MM.yyyy'): a string goes through parseISO, which
\* reads it in the local zone, and a text that is no date makes date-fns
\* throw "Invalid time value"; anything else is handed to format as it is,
\* which reads a number as a timestamp and prints its local day
formatDate(date, zone) ==
  IF falsy(date) THEN <<"">>
  ELSE IF date.kind = "isoDate"
  THEN <<date.number % 100, ".", (date.number \div 100) % 100, ".", date.number \div 10000>>
  ELSE IF date.kind = "number" /\ validTime(epochMs(date))
  THEN LET c == civilFromDays(localMs(epochMs(date), zone) \div 86400000)
       IN <<c[1], ".", c[2], ".", c[3]>>
  ELSE Throws("RangeError")

\* format(dateObj, 'dd.MM.yyyy HH:mm'): the local day and the local clock
formatDateTime(date, zone) ==
  IF falsy(date) THEN <<"">>
  ELSE IF date.kind = "isoDate"
  THEN <<date.number % 100, ".", (date.number \div 100) % 100, ".", date.number \div 10000,
         " ", 0, ":", 0>>
  ELSE IF date.kind = "number" /\ validTime(epochMs(date))
  THEN LET c == civilFromDays(localMs(epochMs(date), zone) \div 86400000)
       IN <<c[1], ".", c[2], ".", c[3], " ">> \o clockOf(localMs(epochMs(date), zone))
  ELSE Throws("RangeError")

\* the value itself unless it is missing
formatValue(value, defaultValue) ==
  IF isMissing(value) THEN <<defaultValue>>
  ELSE IF value.kind = "string" THEN <<value.text>>
  ELSE <<"value", value.number>>

\* Number(value): a number, or NaN (None) for a text that is no number
Number(value) ==
  IF value.kind = "number" THEN Some(value.number)
  ELSE IF value.kind = "string" /\ value.text = "" THEN Some(0)
  ELSE None

\* mutant: NaN is not taken for missing
formatNumber_passesNaN(value, decimals, defaultValue) ==
  IF value.kind \in {"null", "undefined"} THEN <<defaultValue>>
  ELSE IF value.kind # "NaN" /\ Number(value) # None THEN toFixed(Number(value)[1], decimals)
  ELSE <<"NaN">>

formatNumber(value, decimals, defaultValue) ==
  IF isMissing(value) THEN <<defaultValue>>
  ELSE IF Number(value) # None THEN toFixed(Number(value)[1], decimals)
  ELSE <<"NaN">>

formatPercentage(value, decimals, defaultValue) ==
  IF isMissing(value) THEN <<defaultValue>>
  ELSE IF Number(value) # None THEN toFixed(Number(value)[1] * 100, decimals) \o <<"%">>
  ELSE <<"NaN", "%">>

\* String.prototype.toLowerCase on the labels used
toLowerCase(t) ==
  CASE t = "HIGH" -> "high"
    [] t = "Medium" -> "medium"
    [] OTHER -> t

\* the labels are Russian words in the source; a number has no
\* toLowerCase, an ISO date is a string that is none of the three keys
formatConfidence(confidence, defaultValue) ==
  IF falsy(confidence) THEN <<defaultValue>>
  ELSE IF confidence.kind = "isoDate" THEN <<defaultValue>>
  ELSE IF confidence.kind # "string" THEN Throws("TypeError")
  ELSE CASE toLowerCase(confidence.text) = "high" -> <<"High">>
         [] toLowerCase(confidence.text) = "medium" -> <<"Medium">>
         [] toLowerCase(confidence.text) = "low" -> <<"Low">>
         [] OTHER -> <<defaultValue>>

\* labels[riskLevel] || 'unknown' (Russian words in the source)
getRiskLabel(riskLevel) ==
  IF riskLevel.kind # "string" THEN <<"Unknown">>
  ELSE CASE riskLevel.text = "critical" -> <<"Critical">>
         [] riskLevel.text = "high" -> <<"High">>
         [] riskLevel.text = "medium" -> <<"Medium">>
         [] riskLevel.text = "low" -> <<"Low">>
         [] OTHER -> <<"Unknown">>

\* `(x * 100).toFixed(1)` for a field of a metrics object: undefined * 100 is
\* NaN, and NaN.toFixed(1) is 'NaN'
percentFixed(x) == IF x = None THEN <<"NaN">> ELSE toFixed(x[1] * 100, 1)

\* `x.toFixed(2)`: undefined has no toFixed
canFix(x) == x # None

Drawn(texts) == [throws |-> FALSE, texts |-> texts]

RenderThrows == [throws |-> TRUE, texts |-> <<>>]

\* `{evaluationMetrics.total_predictions}`: the number, nothing for undefined
plainValue(x) == IF x = None THEN <<"">> ELSE <<"value", x[1]>>

\* PredictionsCalendar, `evaluationMetrics && showComparison && (...)`: the
\* five texts of the panel for a metrics object while the comparison is
\* shown, nothing otherwise
metricsSummaryPanel(m, show) ==
  IF m = None \/ ~show THEN Drawn(<<>>)
  ELSE IF ~canFix(m[1].mae) THEN RenderThrows
  ELSE Drawn(<<toFixed(m[1].mae[1], 2) \o <<" days">>,
               percentFixed(m[1].accuracy_pm1) \o <<"%">>,
               percentFixed(m[1].accuracy_pm2) \o <<"%">>,
               percentFixed(m[1].accuracy_pm3) \o <<"%">>,
               plainValue(m[1].total_predictions)>>)

\* ModelMetrics, `metrics && (...)`: the value column of the details table
metricsTable(m) ==
  IF m = None THEN Drawn(<<>>)
  ELSE IF ~canFix(m[1].mae) \/ ~canFix(m[1].rmse) THEN RenderThrows
  ELSE Drawn(<<toFixed(m[1].mae[1], 2) \o <<" days">>,
               toFixed(m[1].rmse[1], 2) \o <<" days">>,
               percentFixed(m[1].accuracy_pm1) \o <<"%">>,
               percentFixed(m[1].accuracy_pm2) \o <<"%">>,
               percentFixed(m[1].accuracy_pm3) \o <<"%">>>>)

\* MetricsChart: the `accuracy` of its three bars
MetricsChart(m) ==
  IF m = None THEN Drawn(<<>>)
  ELSE Drawn(<<percentFixed(m[1].accuracy_pm1), percentFixed(m[1].accuracy_pm2),
               percentFixed(m[1].accuracy_pm3)>>)

\* components/RiskBadge.jsx: the class and the label of the badge
RiskBadge(level) ==
  [className |-> <<"risk-badge badge-", level>>, label |-> getRiskLabel(JsString(level))]

(***************************************************************************)
(* pages/PredictionsCalendar.jsx: the events memo                          *)
(***************************************************************************)
\* mutant: the pile filter left out
pileIncluded_noFilter(selected, r) == TRUE

\* mutant: the empty selection not treated as "all"
pileIncluded_membershipOnly(selected, r) == r.pile_id \in selected

\* selectedPiles.size === 0 || selectedPiles.has(r.pile_id)
pileIncluded(selected, r) == selected = {} \/ r.pile_id \in selected

matchEntry(match) ==
  [title |-> <<"Match: Pile #", match.pile_id>>,
   start |-> NewDate(match.real_fire_date),
   backgroundColor |-> "#16a34a",
   borderColor |-> "#16a34a",
   extendedProps |-> [type |-> "match",
                      pileId |-> match.pile_id,
                      predictedDate |-> match.predicted_fire_date,
                      realDate |-> match.real_fire_date,
                      daysDifference |-> match.days_difference,
                      stockyard |-> match.stockyard,
                      coalGrade |-> match.coal_grade]]

predictionEntry(match) ==
  [title |-> <<"Prediction: Pile #", match.pile_id>>,
   start |-> NewDate(match.predicted_fire_date),
   backgroundColor |-> "#3b82f6",
   borderColor |-> "#3b82f6",
   extendedProps |-> [type |-> "prediction",
                      pileId |-> match.pile_id,
                      predictedDate |-> match.predicted_fire_date,
                      stockyard |-> match.stockyard,
                      coalGrade |-> match.coal_grade]]

realEntry(match) ==
  [title |-> <<"Real: Pile #", match.pile_id>>,
   start |-> NewDate(match.real_fire_date),
   backgroundColor |-> "#dc2626",
   borderColor |-> "#dc2626",
   extendedProps |-> [type |-> "real",
                      pileId |-> match.pile_id,
                      realDate |-> match.real_fire_date,
                      stockyard |-> match.stockyard,
                      coalGrade |-> match.coal_grade]]

\* mutant: a miss pushes its real fire only
comparisonEntries_realOnly(match) ==
  IF match.is_match THEN <<matchEntry(match)>> ELSE <<realEntry(match)>>

\* the entries one match record pushes
comparisonEntries(match) ==
  IF match.is_match THEN <<matchEntry(match)>>
  ELSE <<predictionEntry(match), realEntry(match)>>

\* filteredRealFires.forEach(match => ...): the entries pushed, in order
RECURSIVE comparisonEvents(_)
comparisonEvents(matches) ==
  IF matches = <<>> THEN <<>>
  ELSE comparisonEntries(Head(matches)) \o comparisonEvents(Tail(matches))

\* mutant: the comparison branch is taken for an empty list of matches too
comparisonShown_ignoresLength(show, fires) == show /\ fires # None

\* the comparison branch is taken
comparisonShown(show, fires) == show /\ fires # None /\ Len(fires[1]) > 0

\* allEvents: the list before the year post-filter
allEventsOf(preds, selected, show, fires) ==
  IF comparisonShown(show, fires)
  THEN comparisonEvents(SelectSeq(fires[1], LAMBDA m : pileIncluded(selected, m)))
  ELSE processCalendarEvents(SelectSeq(preds, LAMBDA p : pileIncluded(selected, p)))

\* mutant: the filter compares with the year the page was opened in
inYear_openingYear(event, year) == getFullYear(NewDate(event.start)) = Some(ThisYear)

\* new Date(event.start).getFullYear() === currentYear
inYear(event, year) == getFullYear(NewDate(event.start)) = Some(year)

eventsOf(preds, selected, year, show, fires) ==
  IF Len(preds) = 0 THEN <<>>
  ELSE SelectSeq(allEventsOf(preds, selected, show, fires), LAMBDA e : inYear(e, year))

\* the list handed to the calendar widget in the current state
events == eventsOf(predictions, selectedPiles, currentYear, showComparison, realFiresData)

\* the entries the memo has built when it reaches the post-filter (none when
\* it returned early on an empty prediction list)
allEvents ==
  IF Len(predictions) = 0 THEN <<>>
  ELSE allEventsOf(predictions, selectedPiles, showComparison, realFiresData)

(***************************************************************************)
(* pages/DatePileMatrix.jsx                                                *)
(***************************************************************************)
NoStats == [total |-> 0, critical |-> 0, high |-> 0, medium |-> 0, low |-> 0]

MatrixUnmounted ==
  /\ matrixMounted = FALSE
  /\ matrixPredictions = <<>>
  /\ selectedDate = None
  /\ pilesForDate = <<>>
  /\ availableDates = <<>>
  /\ dateStats = NoStats
  /\ matrixEffects = "none"

\* a < b for two ISO date strings of the same form (String.prototype order)
DateBefore(a, b) ==
  \/ a.ymd[1] < b.ymd[1]
  \/ a.ymd[1] = b.ymd[1] /\ a.ymd[2] < b.ymd[2]
  \/ a.ymd[1] = b.ymd[1] /\ a.ymd[2] = b.ymd[2] /\ a.ymd[3] < b.ymd[3]

\* [...set].sort() of a set of ISO date strings
RECURSIVE SortedDates(_)
SortedDates(S) ==
  IF S = {} THEN <<>>
  ELSE LET m == CHOOSE x \in S : \A y \in S \ {x} : DateBefore(x, y)
       IN <<m>> \o SortedDates(S \ {m})

\* date && isValid(parseISO(date))
validDate(date) == date.kind = "string" /\ date.ymd # <<>>

\* mutant: the dates come out latest first
datesOf_descending(parsed) ==
  LET up == SortedDates({d \in {parsed[i].predicted_fire_date : i \in 1..Len(parsed)} :
                           validDate(d)})
  IN [i \in 1..Len(up) |-> up[Len(up) + 1 - i]]

\* [...new Set(parsed.map(p => p.predicted_fire_date))].filter(...).sort()
datesOf(parsed) ==
  SortedDates({d \in {parsed[i].predicted_fire_date : i \in 1..Len(parsed)} : validDate(d)})

\* filtered.filter(p => p.risk_level === level).length
countLevel(filtered, level) ==
  Cardinality({i \in 1..Len(filtered) : filtered[i].risk_level = level})

\* predictions.filter(p => p.predicted_fire_date === selectedDate)
forDate(preds, date) == SelectSeq(preds, LAMBDA p : p.predicted_fire_date = date)

\* the card of a pile: `pile.risk_level || 'low'` gives its class
pileCard(pile) ==
  LET riskLevel == IF pile.risk_level = Undefined THEN "low" ELSE pile.risk_level
  IN [className |-> <<"pile-card risk-", riskLevel>>, badge |-> <<"risk-badge risk-", riskLevel>>]

statsOf(filtered) ==
  [total |-> Len(filtered),
   critical |-> countLevel(filtered, "critical"),
   high |-> countLevel(filtered, "high"),
   medium |-> countLevel(filtered, "medium"),
   low |-> countLevel(filtered, "low")]

\* what the effect on [selectedDate, predictions] calls setPilesForDate and
\* setDateStats with
statsEffect(preds, selected) ==
  IF selected # None /\ Len(preds) > 0
  THEN [pilesForDate |-> forDate(preds, selected[1]),
        dateStats |-> statsOf(forDate(preds, selected[1]))]
  ELSE [pilesForDate |-> <<>>, dateStats |-> NoStats]

\* the page is opened: the first commit shows the useState defaults, its two
\* effects run after the browser has painted
MatrixMount ==
  /\ ~matrixMounted
  /\ alertText = None
  /\ matrixMounted' = TRUE
  /\ matrixEffects' = "mount"
  /\ UNCHANGED <<matrixPredictions, selectedDate, pilesForDate, availableDates, dateStats,
                 nonMatrixVars>>

\* the effects of the first commit: the load effect reads the storage, the
\* stats effect sees the defaults of that commit; the commit that follows
\* shows the list and the selected date with the statistics of no date, and
\* the stats effect is due again when the list was set
MountEffects ==
  /\ matrixEffects = "mount"
  /\ alertText = None
  /\ IF localStorage.predictions # None /\ ~JSONparseThrows(localStorage.predictions[1])
     THEN LET parsed == JSONparse(localStorage.predictions[1])
              dates == datesOf(parsed)
          IN /\ matrixPredictions' = parsed
             /\ availableDates' = dates
             /\ selectedDate' = IF Len(dates) > 0 THEN Some(dates[1]) ELSE selectedDate
             /\ matrixEffects' = "stats"
     ELSE /\ matrixEffects' = "none"
          /\ UNCHANGED <<matrixPredictions, availableDates, selectedDate>>
  /\ pilesForDate' = statsEffect(matrixPredictions, selectedDate).pilesForDate
  /\ dateStats' = statsEffect(matrixPredictions, selectedDate).dateStats
  /\ UNCHANGED <<matrixMounted, nonMatrixVars>>

\* the stats effect of the last commit runs and its two values are committed
StatsEffect ==
  /\ matrixEffects = "stats"
  /\ alertText = None
  /\ pilesForDate' = statsEffect(matrixPredictions, selectedDate).pilesForDate
  /\ dateStats' = statsEffect(matrixPredictions, selectedDate).dateStats
  /\ matrixEffects' = "none"
  /\ UNCHANGED <<matrixMounted, matrixPredictions, selectedDate, availableDates,
                 nonMatrixVars>>

\* a date button other than the active one: React runs an effect that is
\* still due before it renders the new selection, and the commit of the
\* click shows the new date with the statistics computed before it
SelectDate ==
  \E date \in Range(availableDates) :
    /\ matrixMounted
    /\ alertText = None
    /\ selectedDate # Some(date)
    /\ selectedDate' = Some(date)
    /\ IF matrixEffects = "stats"
       THEN /\ pilesForDate' = statsEffect(matrixPredictions, selectedDate).pilesForDate
            /\ dateStats' = statsEffect(matrixPredictions, selectedDate).dateStats
       ELSE UNCHANGED <<pilesForDate, dateStats>>
    /\ matrixEffects' = "stats"
    /\ UNCHANGED <<matrixMounted, matrixPredictions, availableDates, nonMatrixVars>>

\* formatDate of the page: format(parseISO(dateString), 'd MMMM yyyy') of an
\* ISO date; for anything else format throws and the argument is returned
matrixFormatDate(dateString) ==
  IF validDate(dateString)
  THEN <<dateString.ymd[3], " ", "MMMM", dateString.ymd[2], " ", dateString.ymd[1]>>
  ELSE <<dateString>>

\* riskLabels[pile.risk_level] || pile.risk_level (Russian words in the
\* source)
riskLabelOf(pile) ==
  CASE pile.risk_level = "critical" -> "Critical"
    [] pile.risk_level = "high" -> "High"
    [] pile.risk_level = "medium" -> "Medium"
    [] pile.risk_level = "low" -> "Low"
    [] OTHER -> pile.risk_level

\* the text of the alert of a pile card
pileAlert(pile) ==
  <<"pile", pile.pile_id, "risk", riskLabelOf(pile),
    "observed", matrixFormatDate(pile.observation_date),
    "predicted", matrixFormatDate(pile.predicted_fire_date),
    "days", pile.predicted_days_to_fire_rounded>>

\* a pile card is clicked: the cards are drawn for a selected date with a
\* non-empty listing; alert() shows the record of the card and keeps the
\* page as it is until it is dismissed
handlePileClick ==
  \E i \in 1..Len(pilesForDate) :
    /\ matrixMounted
    /\ selectedDate # None
    /\ alertText = None
    /\ alertText' = Some(pileAlert(pilesForDate[i]))
    /\ UNCHANGED <<matrixVars, predictions, selectedPrediction, clickedEntry, loading,
                   dateRange, currentYear, availableYears, realFiresData, showComparison,
                   evaluationMetrics, selectedPiles, availablePiles, fetchCall,
                   evaluateCall, validateVars, metricsVars, formatVars, dashboardVars,
                   localStorage, lastArrived, uncaught, serviceError, scriptVars,
                   routerVars>>

\* the operator leaves the page: the component and its state are dropped,
\* an effect that has not run is dropped with them
MatrixUnmount ==
  /\ matrixMounted
  /\ alertText = None
  /\ matrixMounted' = FALSE
  /\ matrixPredictions' = <<>>
  /\ selectedDate' = None
  /\ pilesForDate' = <<>>
  /\ availableDates' = <<>>
  /\ dateStats' = NoStats
  /\ matrixEffects' = "none"
  /\ UNCHANGED nonMatrixVars

(***************************************************************************)
(* Inputs: what the prediction service answers and what the browser's      *)
(* storage holds when the page is opened.                                  *)
(***************************************************************************)
\* a record of the `predictions` list as the service documents it; the
\* pile was observed three days before the fire predicted for it
Prediction(pile, risk, date) ==
  [pile_id |-> pile, stockyard |-> 6, coal_grade |-> "A1",
   observation_date |-> IF date = DateString(2025, 1, 1) THEN DateString(2024, 12, 29)
                        ELSE DateString(2024, 12, 28),
   predicted_fire_date |-> date, predicted_days_to_fire |-> 32000,
   predicted_days_to_fire_rounded |-> 3,
   confidence |-> "high", risk_level |-> risk,
   features |-> [stock_tons |-> 12345000, temp_max_mean |-> 452000,
                 temp_air_mean |-> 185000]]

FireDates == {DateString(2024, 12, 31), DateString(2025, 1, 1)}

PredictionRecords(risks) ==
  {Prediction(p, r, d) : p \in PileIds, r \in risks, d \in FireDates \cup {NoDate}}

DateRange(years, primary) ==
  [data_start_date |-> DateString(2024, 1, 1), data_end_date |-> DateString(2025, 1, 1),
   data_years |-> years, primary_year |-> primary]

PredictResponses(lists, ranges) ==
  {[predictions |-> ps, date_range |-> dr] : ps \in lists, dr \in ranges}

Match(pile, isMatch, predicted, real) ==
  [pile_id |-> pile, is_match |-> isMatch, predicted_fire_date |-> predicted,
   real_fire_date |-> real, days_difference |-> IF predicted = real THEN 0 ELSE 1,
   stockyard |-> 6, coal_grade |-> "A1"]

\* match records whose two dates fall in different years or in the same one
MatchRecords ==
  {Match(p, b, pd, DateString(2025, 1, 1)) : p \in PileIds, b \in BOOLEAN, pd \in FireDates}

\* a body of /evaluate (mae in days and the accuracies in 1/10000)
EvaluateResponse(matched) ==
  [matched_predictions |-> matched, mae |-> 18500, accuracy_pm1 |-> 5200,
   accuracy_pm2 |-> 7300, accuracy_pm3 |-> 8500, total_predictions |-> 100,
   correct_pm2 |-> 73]

\* /evaluate answers: a body without matched_predictions, or one with the list
EvaluateResponses(lists) ==
  {EvaluateResponse(None)} \cup {EvaluateResponse(Some(ms)) : ms \in lists}

(***************************************************************************)
(* services/api.js: what a failing call rejects with                       *)
(***************************************************************************)
\* the body of a non-2xx answer, with or without its two text fields
ErrorBody(message, detail) == [message |-> message, detail |-> detail]

MessageText == "the file has no date column"
DetailText == "no predictions to evaluate"

\* a body with a `message` and one with a `detail`
ErrorBodies == {ErrorBody(Some(MessageText), None), ErrorBody(None, Some(DetailText))}

\* error.message as axios sets it: without an answer, and for a non-2xx one
axiosMessage(body) ==
  IF body = None THEN "Network Error" ELSE "Request failed with status code 400"

\* the response interceptor's error branch: Promise.reject(new Error(message));
\* the Error it builds has a message and no `response`
responseInterceptor(body) ==
  [message |-> IF body # None /\ body[1].message # None THEN body[1].message[1]
               ELSE axiosMessage(body),
   response |-> None]

\* the text loadRealFiresData alerts for the error it caught
errorMessage(err) ==
  IF err.response # None /\ err.response[1].detail # None THEN err.response[1].detail[1]
  ELSE err.message

(***************************************************************************)
(* pages/PredictionsCalendar.jsx: mount, the two calls and the handlers    *)
(***************************************************************************)
\* the state after the first render and the mount effect: fetchPredictions
\* has set loading and awaits getPredictions
CalendarMounted ==
  /\ predictions = <<>>
  /\ selectedPrediction = None
  /\ clickedEntry = None
  /\ loading = TRUE
  /\ dateRange = None
  /\ currentYear = ThisYear
  /\ availableYears = <<>>
  /\ realFiresData = None
  /\ showComparison = FALSE
  /\ evaluationMetrics = None
  /\ selectedPiles = {}
  /\ availablePiles = <<>>
  /\ fetchCall = "pending"
  /\ evaluateCall = "idle"
  /\ alertText = None

\* response.date_range.primary_year || (years.length > 0 ? years[years.length - 1] : new Date().getFullYear())
primaryYearOf(range) ==
  LET years == IF range.data_years = None THEN <<>> ELSE range.data_years[1]
  IN IF range.primary_year # None THEN range.primary_year[1]
     ELSE IF Len(years) > 0 THEN years[Len(years)] ELSE ThisYear

\* JavaScript runs a callback to its next await before any other callback or
\* event handler starts, and alert() suspends them all
uiIdle == alertText = None /\ running = None

\* the alert on screen is that of the catch block of loadRealFiresData of
\* the page on screen, which has setShowComparison(false) and the finally
\* block left to run: its call has settled and loading is still as the try
\* block set it (the alert before the try block is raised with loading
\* false, and a page that has left the screen has no state to set)
catchSuspended ==
  alertText # None /\ loading /\ evaluateCall \in {"resolved", "rejected"}

\* alert() is modal: no handler runs and no response is delivered until the
\* operator dismisses it; the handler that raised it then runs to its end
DismissAlert ==
  /\ alertText # None
  /\ alertText' = None
  /\ IF catchSuspended
     THEN showComparison' = FALSE /\ loading' = FALSE
     ELSE UNCHANGED <<showComparison, loading>>
  /\ UNCHANGED <<nonCalendarVars, predictions, selectedPrediction, clickedEntry, dateRange, currentYear,
                 availableYears, realFiresData, evaluationMetrics,
                 selectedPiles, availablePiles, fetchCall, evaluateCall, localStorage, lastArrived, uncaught>>

\* the component's state when the page is not on screen: nothing is kept
\* between two visits, a new visit starts from the useState defaults
CalendarUnmounted ==
  /\ predictions = <<>>
  /\ selectedPrediction = None
  /\ clickedEntry = None
  /\ loading = TRUE
  /\ dateRange = None
  /\ currentYear = ThisYear
  /\ availableYears = <<>>
  /\ realFiresData = None
  /\ showComparison = FALSE
  /\ evaluationMetrics = None
  /\ selectedPiles = {}
  /\ availablePiles = <<>>
  /\ fetchCall = "idle"
  /\ evaluateCall = "idle"
  /\ alertText = None

\* fetchPredictions: getPredictions resolved with `response`
FetchPredictionsResolve(responses) ==
  \E response \in responses :
    LET piles == SortedSeq({response.predictions[i].pile_id : i \in 1..Len(response.predictions)})
    IN /\ uiIdle
       /\ fetchCall = "pending"
       /\ predictions' = response.predictions
       /\ availablePiles' = piles
       /\ selectedPiles' = Range(piles)
       /\ IF response.date_range # None
          THEN LET range == response.date_range[1]
               IN /\ dateRange' = Some(range)
                  /\ localStorage' = [localStorage EXCEPT
                                        !.predictionDateRange = Some(JSONstringify(range))]
                  /\ availableYears' = IF range.data_years = None THEN <<>>
                                       ELSE range.data_years[1]
                  /\ currentYear' = primaryYearOf(range)
          ELSE UNCHANGED <<dateRange, localStorage, availableYears, currentYear>>
       /\ lastArrived' = Some(response.date_range)
       /\ loading' = FALSE
       /\ fetchCall' = "resolved"
       /\ UNCHANGED <<nonCalendarVars, selectedPrediction, clickedEntry, realFiresData, showComparison,
                      evaluationMetrics, evaluateCall, alertText, uncaught>>

\* fetchPredictions: getPredictions rejected; the catch block falls back to
\* the stored list; JSON.parse is not guarded there, so on a text that is no
\* JSON the exception leaves the handler after its finally block has run
FetchPredictionsReject ==
  /\ uiIdle
  /\ fetchCall = "pending"
  /\ predictions' =
       IF localStorage.predictions # None /\ ~JSONparseThrows(localStorage.predictions[1])
       THEN JSONparse(localStorage.predictions[1])
       ELSE predictions
  /\ uncaught' =
       IF localStorage.predictions # None /\ JSONparseThrows(localStorage.predictions[1])
       THEN uncaught \cup {"fetchPredictions"}
       ELSE uncaught
  /\ loading' = FALSE
  /\ fetchCall' = "rejected"
  /\ UNCHANGED <<nonCalendarVars, selectedPrediction, clickedEntry, dateRange, currentYear, availableYears,
                 realFiresData, showComparison, evaluationMetrics, selectedPiles,
                 availablePiles, evaluateCall, alertText, localStorage, lastArrived>>

\* mutant: the compare button asks for the evaluation whatever the storage
\* says
CompareClick_noGate ==
  /\ uiIdle
  /\ ~loading
  /\ IF realFiresData = None
     THEN /\ loading' = TRUE
          /\ evaluateCall' = "pending"
          /\ UNCHANGED <<alertText, showComparison>>
     ELSE /\ showComparison' = TRUE
          /\ UNCHANGED <<loading, evaluateCall, alertText>>
  /\ UNCHANGED <<nonCalendarVars, predictions, selectedPrediction, clickedEntry, dateRange, currentYear,
                 availableYears, realFiresData, evaluationMetrics, selectedPiles,
                 availablePiles, fetchCall, localStorage, lastArrived, uncaught>>

\* the "compare with real data" button (disabled while loading):
\* loadRealFiresData when nothing is loaded yet, else setShowComparison(true)
CompareClick ==
  /\ uiIdle
  /\ ~loading
  /\ IF realFiresData = None
     THEN IF localStorage.firesUploaded # Some(TrueText)
          THEN /\ alertText' = Some("upload fires.csv on the Dashboard first")
               /\ UNCHANGED <<loading, evaluateCall, showComparison>>
          ELSE /\ loading' = TRUE
               /\ evaluateCall' = "pending"
               /\ UNCHANGED <<alertText, showComparison>>
     ELSE /\ showComparison' = TRUE
          /\ UNCHANGED <<loading, evaluateCall, alertText>>
  /\ UNCHANGED <<nonCalendarVars, predictions, selectedPrediction, clickedEntry, dateRange, currentYear,
                 availableYears, realFiresData, evaluationMetrics, selectedPiles,
                 availablePiles, fetchCall, localStorage, lastArrived, uncaught>>

\* loadRealFiresData: evaluatePredictions resolved with `response`; a
\* response without the list is thrown to the catch block, which stops in
\* alert()
EvaluateResolve(responses) ==
  \E response \in responses :
    /\ uiIdle
    /\ evaluateCall = "pending"
    /\ IF response.matched_predictions = None
       THEN /\ alertText' = Some("the response holds no comparison data")
            /\ UNCHANGED <<realFiresData, evaluationMetrics, showComparison, loading>>
       ELSE /\ realFiresData' = Some(response.matched_predictions[1])
            /\ evaluationMetrics' =
                 Some([mae |-> response.mae, accuracy_pm1 |-> response.accuracy_pm1,
                       accuracy_pm2 |-> response.accuracy_pm2,
                       accuracy_pm3 |-> response.accuracy_pm3,
                       total_predictions |-> response.total_predictions,
                       correct_pm2 |-> response.correct_pm2])
            /\ showComparison' = TRUE
            /\ loading' = FALSE
            /\ UNCHANGED alertText
    /\ evaluateCall' = "resolved"
    /\ UNCHANGED <<nonCalendarVars, predictions, selectedPrediction, clickedEntry, dateRange, currentYear,
                   availableYears, selectedPiles, availablePiles, fetchCall,
                   localStorage, lastArrived, uncaught>>

\* loadRealFiresData: evaluatePredictions rejected; the catch block stops
\* in alert()
EvaluateReject ==
  /\ uiIdle
  /\ evaluateCall = "pending"
  /\ alertText' = Some(errorMessage(responseInterceptor(serviceError)))
  /\ evaluateCall' = "rejected"
  /\ UNCHANGED <<nonCalendarVars, predictions, selectedPrediction, clickedEntry, loading, showComparison,
                 dateRange, currentYear,
                 availableYears, realFiresData, evaluationMetrics, selectedPiles,
                 availablePiles, fetchCall, localStorage, lastArrived, uncaught>>

\* the "predictions only" button
ShowPredictionsOnly ==
  /\ uiIdle
  /\ fetchCall # "idle"
  /\ showComparison' = FALSE
  /\ UNCHANGED <<nonCalendarVars, predictions, selectedPrediction, clickedEntry, loading, dateRange, currentYear,
                 availableYears, realFiresData, evaluationMetrics, selectedPiles,
                 availablePiles, fetchCall, evaluateCall, alertText, localStorage, lastArrived, uncaught>>

selectionFrame ==
  /\ uiIdle
  /\ fetchCall # "idle"
  /\ UNCHANGED <<nonCalendarVars, predictions, selectedPrediction, clickedEntry, loading, dateRange, currentYear,
              availableYears, realFiresData, showComparison, evaluationMetrics,
              availablePiles, fetchCall, evaluateCall, alertText, localStorage, lastArrived, uncaught>>

\* mutant: the checkbox only ever adds its pile
toggled_addsOnly(prev, pileId) == prev \cup {pileId}

\* the updater of togglePileSelection: a copy of prev without pileId when it
\* has it, with pileId when it has not
toggled(prev, pileId) ==
  IF pileId \in prev THEN prev \ {pileId} ELSE prev \cup {pileId}

\* a pile checkbox of the filter panel (one per available pile)
togglePileSelection ==
  \E pileId \in Range(availablePiles) :
    /\ selectedPiles' = toggled(selectedPiles, pileId)
    /\ selectionFrame

selectAllPiles ==
  /\ selectedPiles' = Range(availablePiles)
  /\ selectionFrame

deselectAllPiles ==
  /\ selectedPiles' = {}
  /\ selectionFrame

\* mutant: the record shown is the last one of the clicked pile
find_last(preds, pileId) ==
  LET hits == {i \in 1..Len(preds) : preds[i].pile_id = pileId}
  IN IF hits = {} THEN None
     ELSE Some(preds[CHOOSE i \in hits : \A j \in hits : j <= i])

\* predictions.find((p) => p.pile_id === pileId); undefined is None
find(preds, pileId) ==
  LET hits == {i \in 1..Len(preds) : preds[i].pile_id = pileId}
  IN IF hits = {} THEN None
     ELSE Some(preds[CHOOSE i \in hits : \A j \in hits : i <= j])

\* eventClick of the calendar widget on one of the entries it shows
handleEventClick ==
  \E k \in 1..Len(events) :
    /\ uiIdle
    /\ selectedPrediction' = find(predictions, events[k].extendedProps.pileId)
    /\ clickedEntry' = Some(events[k])
    /\ UNCHANGED <<nonCalendarVars, predictions, loading, dateRange, currentYear,
                   availableYears, realFiresData, showComparison, evaluationMetrics,
                   selectedPiles, availablePiles, fetchCall, evaluateCall, alertText,
                   localStorage, lastArrived, uncaught>>

\* the close button and the overlay of the detail card: setSelectedPrediction(null)
CloseDetail ==
  /\ uiIdle
  /\ selectedPrediction # None
  /\ selectedPrediction' = None
  /\ UNCHANGED <<nonCalendarVars, predictions, clickedEntry, loading, dateRange, currentYear,
                 availableYears, realFiresData, showComparison, evaluationMetrics,
                 selectedPiles, availablePiles, fetchCall, evaluateCall, alertText,
                 localStorage, lastArrived, uncaught>>

\* a year button (rendered when availableYears.length > 1)
handleYearChange ==
  \E year \in Range(availableYears) :
    /\ uiIdle
    /\ Len(availableYears) > 1
    /\ currentYear' = year
    /\ UNCHANGED <<nonCalendarVars, predictions, selectedPrediction, clickedEntry, loading, dateRange,
                   availableYears, realFiresData, showComparison, evaluationMetrics,
                   selectedPiles, availablePiles, fetchCall, evaluateCall, alertText,
                   localStorage, lastArrived, uncaught>>

\* what the browser's storage may hold when the page is opened
StoredPredictions ==
  {None, Some(CorruptText),
   Some(JSONstringify(<<Prediction(1, "high", DateString(2025, 1, 1))>>))}

Storage(fires, stored) ==
  [firesUploaded |-> fires, predictionDateRange |-> None, predictions |-> stored]

StorageAtOpen ==
  {Storage(f, p) : f \in {None, Some(TrueText)}, p \in StoredPredictions}

CalendarHandlers ==
  \/ DismissAlert
  \/ CompareClick
  \/ EvaluateReject
  \/ ShowPredictionsOnly
  \/ handleEventClick
  \/ CloseDetail
  \/ togglePileSelection
  \/ selectAllPiles
  \/ deselectAllPiles
  \/ handleYearChange
  \/ FetchPredictionsReject

(***************************************************************************)
(* pages/Dashboard.jsx with its four components/FileUpload.jsx controls    *)
(***************************************************************************)
Controls == {"supplies", "temperature", "weather", "fires"}

\* the `multiple` prop: only the weather control takes several files
multiple(c) == c = "weather"

NoFiles == [supplies |-> None, fires |-> None, temperature |-> None, weather |-> <<>>]

\* the useState defaults of Dashboard and of its FileUpload controls
DashboardDefaults ==
  /\ files = NoFiles
  /\ predicting = FALSE
  /\ dashboardError = None
  /\ success = None
  /\ dashboardDateRange = None
  /\ successTimers = 0
  /\ uploading = [c \in Controls |-> FALSE]
  /\ error = [c \in Controls |-> None]

\* no drop handler is running and no request of the page is outstanding
DashboardQuiet ==
  /\ predictCall = "idle"
  /\ navigateTimers = 0
  /\ dropped = 0
  /\ queue = [c \in Controls |-> <<>>]
  /\ uploadCall = [c \in Controls |-> None]
  /\ lastUpload = [c \in Controls |-> "none"]
  /\ running = None
  /\ accepted = [c \in Controls |-> <<>>]
  /\ trace = [c \in Controls |-> <<>>]

DashboardMounted == dashboardMounted = TRUE /\ DashboardDefaults /\ DashboardQuiet

DashboardUnmounted == dashboardMounted = FALSE /\ DashboardDefaults /\ DashboardQuiet

\* mutant: the drop handler uploads the file whatever the validation says
onDropFile_noValidation(c, f, env) ==
  [error |-> None, uploading |-> TRUE, request |-> Some(f)]

\* mutant: a file that passes the validation leaves the message where it is
onDropFile_keepsError(c, f, env) ==
  LET v == validateCSVFile(f, env)
  IN IF ~v.valid
     THEN [error |-> IF multiple(c) THEN Some(<<f.name, ": ", v.error[1]>>) ELSE v.error,
           uploading |-> FALSE, request |-> None]
     ELSE [error |-> error[c], uploading |-> TRUE, request |-> Some(f)]

\* onDrop, one file: what setError and setUploading are called with and the
\* file handed to onUpload, if any
onDropFile(c, f, env) ==
  LET v == validateCSVFile(f, env)
  IN IF ~v.valid
     THEN [error |-> IF multiple(c) THEN Some(<<f.name, ": ", v.error[1]>>) ELSE v.error,
           uploading |-> FALSE, request |-> None]
     ELSE [error |-> None, uploading |-> TRUE, request |-> Some(f)]

\* mutant: the dropzone takes a drop while its control is uploading
DropFiles_whileUploading(singles, multiples) ==
  \E c \in Controls :
    \E acceptedFiles \in (IF multiple(c) THEN multiples ELSE singles) :
      LET batch == IF multiple(c) \/ acceptedFiles = <<>> THEN acceptedFiles
                   ELSE <<acceptedFiles[1]>>
      IN /\ uiIdle
         /\ dashboardMounted
         /\ dropped + Len(batch) <= MaxFiles
         /\ dropped' = dropped + Len(batch)
         /\ queue' = [queue EXCEPT ![c] = batch]
         /\ running' = IF batch = <<>> THEN None ELSE Some(c)
         /\ accepted' = [accepted EXCEPT ![c] = acceptedFiles]
         /\ trace' = [trace EXCEPT ![c] = <<>>]
         /\ UNCHANGED <<dashboardMounted, files, predicting, dashboardError, success,
                        dashboardDateRange, predictCall, successTimers, navigateTimers,
                        uploading, error, uploadCall, lastUpload, nonDashboardVars,
                        localStorage, lastArrived>>

\* react-dropzone calls onDrop(acceptedFiles) on an enabled control: the
\* handler takes every file in multiple mode, acceptedFiles[0] otherwise
DropFiles(singles, multiples) ==
  \E c \in Controls :
    \E acceptedFiles \in (IF multiple(c) THEN multiples ELSE singles) :
      LET batch == IF multiple(c) \/ acceptedFiles = <<>> THEN acceptedFiles
                   ELSE <<acceptedFiles[1]>>
      IN /\ uiIdle
         /\ dashboardMounted
         /\ ~uploading[c]
         /\ dropped + Len(batch) <= MaxFiles
         /\ dropped' = dropped + Len(batch)
         /\ queue' = [queue EXCEPT ![c] = batch]
         /\ running' = IF batch = <<>> THEN None ELSE Some(c)
         /\ accepted' = [accepted EXCEPT ![c] = acceptedFiles]
         /\ trace' = [trace EXCEPT ![c] = <<>>]
         /\ UNCHANGED <<dashboardMounted, files, predicting, dashboardError, success,
                        dashboardDateRange, predictCall, successTimers, navigateTimers,
                        uploading, error, uploadCall, lastUpload, nonDashboardVars,
                        localStorage, lastArrived>>

\* onDrop: the next file of the batch, up to `await onUpload(file)` or to
\* the end of its iteration
ProcessFile ==
  \E c \in Controls :
    /\ running = Some(c)
    /\ queue[c] # <<>>
    /\ LET r == onDropFile(c, Head(queue[c]), viteMaxFileSize)
       IN /\ queue' = [queue EXCEPT ![c] = Tail(@)]
          /\ uploadCall' = [uploadCall EXCEPT ![c] = r.request]
          /\ running' = IF r.request = None /\ Tail(queue[c]) # <<>> THEN Some(c) ELSE None
          /\ trace' = [trace EXCEPT ![c] =
                          Append(@, [event |-> IF r.request = None THEN "refused" ELSE "onUpload",
                                     file |-> Head(queue[c])])]
          /\ error' = [error EXCEPT ![c] = r.error]
          /\ uploading' = [uploading EXCEPT ![c] = r.uploading]
    /\ UNCHANGED <<dashboardMounted, files, predicting, dashboardError, success,
                   dashboardDateRange, predictCall, successTimers, navigateTimers,
                   dropped, lastUpload, accepted, nonDashboardVars, localStorage, lastArrived>>

\* the upload awaited by control c resolved: the rest of handleUpload, then
\* the finally block of onDrop
UploadResolve ==
  \E c \in Controls :
    /\ uiIdle
    /\ uploadCall[c] # None
    /\ LET f == uploadCall[c][1]
       IN /\ files' = IF c = "weather"
                      THEN [files EXCEPT !.weather = Append(@, f)]
                      ELSE [files EXCEPT ![c] = Some(f)]
          /\ success' = Some(<<"uploaded", f.name>>)
          /\ successTimers' = successTimers + 1
          /\ uploading' = [uploading EXCEPT ![c] = FALSE]
          /\ localStorage' = IF c = "fires"
                             THEN [localStorage EXCEPT !.firesUploaded = Some(TrueText)]
                             ELSE localStorage
    /\ uploadCall' = [uploadCall EXCEPT ![c] = None]
    /\ lastUpload' = [lastUpload EXCEPT ![c] = "resolved"]
    /\ running' = IF queue[c] # <<>> THEN Some(c) ELSE None
    /\ trace' = [trace EXCEPT ![c] = Append(@, [event |-> "resolved", file |-> uploadCall[c][1]])]
    /\ UNCHANGED <<dashboardMounted, predicting, dashboardError, dashboardDateRange,
                   predictCall, navigateTimers, dropped, error, queue, accepted,
                   nonDashboardVars, lastArrived>>

\* mutant: the file of a rejected upload is recorded all the same
UploadReject_recordsFile ==
  \E c \in Controls :
    /\ uiIdle
    /\ uploadCall[c] # None
    /\ error' = [error EXCEPT ![c] = Some(<<responseInterceptor(serviceError).message>>)]
    /\ uploading' = [uploading EXCEPT ![c] = FALSE]
    /\ files' = IF c = "weather"
                THEN [files EXCEPT !.weather = Append(@, uploadCall[c][1])]
                ELSE [files EXCEPT ![c] = uploadCall[c]]
    /\ uploadCall' = [uploadCall EXCEPT ![c] = None]
    /\ lastUpload' = [lastUpload EXCEPT ![c] = "rejected"]
    /\ running' = IF queue[c] # <<>> THEN Some(c) ELSE None
    /\ trace' = [trace EXCEPT ![c] = Append(@, [event |-> "rejected", file |-> uploadCall[c][1]])]
    /\ UNCHANGED <<dashboardMounted, predicting, dashboardError, success,
                   dashboardDateRange, predictCall, successTimers, navigateTimers,
                   dropped, queue, accepted, nonDashboardVars, localStorage, lastArrived>>

\* mutant: a rejected upload ends the drop handler, the rest of the batch is
\* never looked at
UploadReject_abandonsBatch ==
  \E c \in Controls :
    /\ uiIdle
    /\ uploadCall[c] # None
    /\ error' = [error EXCEPT ![c] = Some(<<responseInterceptor(serviceError).message>>)]
    /\ uploading' = [uploading EXCEPT ![c] = FALSE]
    /\ uploadCall' = [uploadCall EXCEPT ![c] = None]
    /\ lastUpload' = [lastUpload EXCEPT ![c] = "rejected"]
    /\ running' = None
    /\ queue' = [queue EXCEPT ![c] = <<>>]
    /\ trace' = [trace EXCEPT ![c] = Append(@, [event |-> "rejected", file |-> uploadCall[c][1]])]
    /\ UNCHANGED <<dashboardMounted, files, predicting, dashboardError, success,
                   dashboardDateRange, predictCall, successTimers, navigateTimers,
                   dropped, accepted, nonDashboardVars, localStorage, lastArrived>>

\* the upload awaited by control c rejected: handleUpload rethrows, onDrop
\* catches (`err.message || ...`; the Error of the response interceptor
\* always has a message) and runs its finally block
UploadReject ==
  \E c \in Controls :
    /\ uiIdle
    /\ uploadCall[c] # None
    /\ error' = [error EXCEPT ![c] = Some(<<responseInterceptor(serviceError).message>>)]
    /\ uploading' = [uploading EXCEPT ![c] = FALSE]
    /\ uploadCall' = [uploadCall EXCEPT ![c] = None]
    /\ lastUpload' = [lastUpload EXCEPT ![c] = "rejected"]
    /\ running' = IF queue[c] # <<>> THEN Some(c) ELSE None
    /\ trace' = [trace EXCEPT ![c] = Append(@, [event |-> "rejected", file |-> uploadCall[c][1]])]
    /\ UNCHANGED <<dashboardMounted, files, predicting, dashboardError, success,
                   dashboardDateRange, predictCall, successTimers, navigateTimers,
                   dropped, queue, accepted, nonDashboardVars, localStorage, lastArrived>>

\* setTimeout(() => setSuccess(null), 3000) of an upload
ClearSuccess ==
  /\ uiIdle
  /\ successTimers > 0
  /\ successTimers' = successTimers - 1
  /\ success' = None
  /\ UNCHANGED <<dashboardMounted, files, predicting, dashboardError, dashboardDateRange,
                 predictCall, navigateTimers, dropped, uploading, error, queue,
                 uploadCall, lastUpload, running, accepted, trace, nonDashboardVars,
                 localStorage, lastArrived>>

\* the remove button of a listed weather file
handleRemoveWeatherFile ==
  \E index \in 1..Len(files.weather) :
    /\ uiIdle
    /\ dashboardMounted
    /\ files' = [files EXCEPT !.weather =
                   SubSeq(@, 1, index - 1) \o SubSeq(@, index + 1, Len(@))]
    /\ UNCHANGED <<dashboardMounted, predicting, dashboardError, success,
                   dashboardDateRange, predictCall, successTimers, navigateTimers,
                   dropped, uploading, error, queue, uploadCall, lastUpload, running,
                   accepted, trace, nonDashboardVars, localStorage, lastArrived>>

canPredict(fs) == fs.supplies # None /\ fs.temperature # None /\ Len(fs.weather) > 0

RequiredFilesMissing == <<"the required files are missing">>

\* mutant: handlePredict does not look at the weather list
handlePredict_ignoresWeather(fs) ==
  IF fs.supplies = None \/ fs.temperature = None
  THEN [request |-> FALSE, error |-> Some(RequiredFilesMissing)]
  ELSE [request |-> TRUE, error |-> None]

\* handlePredict up to its await: whether triggerPrediction(3) is called
\* and what setError is called with
handlePredict(fs) ==
  IF fs.supplies = None \/ fs.temperature = None \/ Len(fs.weather) = 0
  THEN [request |-> FALSE, error |-> Some(RequiredFilesMissing)]
  ELSE [request |-> TRUE, error |-> None]

\* the predict button (disabled unless canPredict and not predicting):
\* handlePredict up to `await triggerPrediction(3)`
PredictClick ==
  /\ uiIdle
  /\ dashboardMounted
  /\ canPredict(files) /\ ~predicting
  /\ navigateTimers < MaxNavigations
  /\ LET h == handlePredict(files)
     IN /\ dashboardError' = h.error
        /\ IF h.request
           THEN predicting' = TRUE /\ predictCall' = "pending"
           ELSE UNCHANGED <<predicting, predictCall>>
  /\ UNCHANGED <<dashboardMounted, files, success, dashboardDateRange, successTimers,
                 navigateTimers, dropped, uploading, error, queue, uploadCall,
                 lastUpload, running, accepted, trace, nonDashboardVars, localStorage, lastArrived>>

\* handlePredict: triggerPrediction resolved with `result`
PredictResolve(responses) ==
  \E result \in responses :
    /\ uiIdle
    /\ predictCall = "pending"
    /\ localStorage' =
         IF result.date_range # None
         THEN [localStorage EXCEPT
                 !.predictionDateRange = Some(JSONstringify(result.date_range[1]))]
         ELSE localStorage
    /\ dashboardDateRange' = IF result.date_range # None THEN result.date_range
                             ELSE dashboardDateRange
    /\ success' = Some(<<"prediction done">>)
    /\ predicting' = FALSE
    /\ lastArrived' = Some(result.date_range)
    /\ navigateTimers' = navigateTimers + 1
    /\ predictCall' = "resolved"
    /\ UNCHANGED <<dashboardMounted, files, dashboardError, successTimers, dropped,
                   uploading, error, queue, uploadCall, lastUpload, running,
                   accepted, trace, nonDashboardVars>>

\* handlePredict: triggerPrediction rejected
PredictReject ==
  /\ uiIdle
  /\ predictCall = "pending"
  /\ dashboardError' = Some(<<responseInterceptor(serviceError).message>>)
  /\ predicting' = FALSE
  /\ predictCall' = "rejected"
  /\ UNCHANGED <<dashboardMounted, files, success, dashboardDateRange, successTimers,
                 navigateTimers, dropped, uploading, error, queue, uploadCall,
                 lastUpload, running, accepted, trace, nonDashboardVars, localStorage, lastArrived>>

(***************************************************************************)
(* App.jsx, components/Header.jsx: the routes and the header links. A page *)
(* that leaves the screen loses its React state; the calls it has issued   *)
(* stay pending and their continuations run when they settle.              *)
(***************************************************************************)
\* the route /calendar shows PredictionsCalendar
onCalendar == fetchCall # "idle"

\* no page has been replaced yet
NoOrphans ==
  /\ orphanCalls = [getPredictions |-> 0, evaluatePredictions |-> 0, triggerPrediction |-> 0]
  /\ orphanUploads = EmptyBag

\* <Route path="/calendar">: PredictionsCalendar is mounted, its mount
\* effect calls fetchPredictions
CalendarEnters ==
  /\ fetchCall' = "pending"
  /\ UNCHANGED <<predictions, selectedPrediction, clickedEntry, loading, dateRange, currentYear,
                 availableYears, realFiresData, showComparison, evaluationMetrics,
                 selectedPiles, availablePiles, evaluateCall, alertText>>

\* the route changes from /calendar (or was another one already):
\* PredictionsCalendar is not on screen after it
CalendarLeaves ==
  /\ predictions' = <<>>
  /\ selectedPrediction' = None
  /\ clickedEntry' = None
  /\ loading' = TRUE
  /\ dateRange' = None
  /\ currentYear' = ThisYear
  /\ availableYears' = <<>>
  /\ realFiresData' = None
  /\ showComparison' = FALSE
  /\ evaluationMetrics' = None
  /\ selectedPiles' = {}
  /\ availablePiles' = <<>>
  /\ fetchCall' = "idle"
  /\ evaluateCall' = "idle"
  /\ UNCHANGED alertText

\* the route changes from /matrix (or was another one already)
MatrixLeaves ==
  /\ matrixMounted' = FALSE
  /\ matrixPredictions' = <<>>
  /\ selectedDate' = None
  /\ pilesForDate' = <<>>
  /\ availableDates' = <<>>
  /\ dateStats' = NoStats
  /\ matrixEffects' = "none"

\* <Route path="/">: a new Dashboard with new FileUpload controls is mounted
DashboardEnters ==
  /\ dashboardMounted' = TRUE
  /\ UNCHANGED <<files, predicting, dashboardError, success, dashboardDateRange,
                 successTimers, uploading, error, predictCall, queue, uploadCall,
                 lastUpload, accepted, trace, running, dropped>>

\* the route changes from / (or was another one already): Dashboard and its
\* controls are not on screen after it; their state is gone, the setTimeout
\* of a success message finds no state to clear, the calls they await
\* belong to no page from now on
DashboardLeaves ==
  /\ dashboardMounted' = FALSE
  /\ files' = NoFiles
  /\ predicting' = FALSE
  /\ dashboardError' = None
  /\ success' = None
  /\ dashboardDateRange' = None
  /\ successTimers' = 0
  /\ uploading' = [c \in Controls |-> FALSE]
  /\ error' = [c \in Controls |-> None]
  /\ predictCall' = "idle"
  /\ queue' = [c \in Controls |-> <<>>]
  /\ uploadCall' = [c \in Controls |-> None]
  /\ lastUpload' = [c \in Controls |-> "none"]
  /\ accepted' = [c \in Controls |-> <<>>]
  /\ trace' = [c \in Controls |-> <<>>]
  /\ UNCHANGED <<running, dropped>>

\* the uploads the controls of Dashboard await, each with the files of its
\* batch still to come
awaitedUploads ==
  SetToBag({[control |-> c, file |-> uploadCall[c][1], rest |-> queue[c]] :
              c \in {k \in Controls : uploadCall[k] # None}})

\* the pending calls without a page once the page on screen has left it
orphanCallsAfter ==
  [getPredictions |-> orphanCalls.getPredictions + (IF fetchCall = "pending" THEN 1 ELSE 0),
   evaluatePredictions |->
     orphanCalls.evaluatePredictions + (IF evaluateCall = "pending" THEN 1 ELSE 0),
   triggerPrediction |->
     orphanCalls.triggerPrediction + (IF predictCall = "pending" THEN 1 ELSE 0)]

\* the calls without a page, all in all
orphans(calls, uploads) ==
  calls.getPredictions + calls.evaluatePredictions + calls.triggerPrediction
    + BagCardinality(uploads)

\* the page on screen leaves it with the calls it awaits
PageLeaves ==
  /\ orphans(orphanCallsAfter, orphanUploads (+) awaitedUploads) <= MaxOrphans
  /\ orphanCalls' = orphanCallsAfter
  /\ orphanUploads' = orphanUploads (+) awaitedUploads
  /\ MatrixLeaves

\* the header link to /calendar, followed from another page
OpenCalendar ==
  /\ uiIdle
  /\ ~onCalendar
  /\ PageLeaves
  /\ DashboardLeaves
  /\ CalendarEnters
  /\ UNCHANGED <<navigateTimers, validateVars, metricsVars, formatVars, localStorage,
                 lastArrived, uncaught, serviceError, scriptVars>>

\* the header link to /, followed from another page
OpenDashboard ==
  /\ uiIdle
  /\ ~dashboardMounted
  /\ PageLeaves
  /\ CalendarLeaves
  /\ DashboardEnters
  /\ UNCHANGED <<navigateTimers, validateVars, metricsVars, formatVars, localStorage,
                 lastArrived, uncaught, serviceError, scriptVars>>

\* the header link to /metrics, followed from a page the model tracks
OpenMetrics ==
  /\ uiIdle
  /\ dashboardMounted \/ onCalendar \/ matrixMounted
  /\ PageLeaves
  /\ DashboardLeaves
  /\ CalendarLeaves
  /\ UNCHANGED <<navigateTimers, validateVars, metricsVars, formatVars, localStorage,
                 lastArrived, uncaught, serviceError, scriptVars>>

\* setTimeout(() => navigate('/calendar'), 1500) of a prediction: the route
\* becomes /calendar whatever page is on screen; on /calendar nothing is
\* mounted anew
NavigateTimerFires ==
  /\ uiIdle
  /\ navigateTimers > 0
  /\ navigateTimers' = navigateTimers - 1
  /\ IF onCalendar
     THEN UNCHANGED <<dashboardMounted, files, predicting, dashboardError, success,
                      dashboardDateRange, predictCall, successTimers, dropped, uploading,
                      error, queue, uploadCall, lastUpload, running, accepted, trace,
                      calendarVars, matrixVars, routerVars>>
     ELSE PageLeaves /\ DashboardLeaves /\ CalendarEnters
  /\ UNCHANGED <<validateVars, metricsVars, formatVars, localStorage,
                 lastArrived, uncaught, serviceError, scriptVars>>

\* what a continuation without a page leaves alone (it may write the
\* storage, start a timer and raise an alert)
orphanFrame ==
  UNCHANGED <<predictions, selectedPrediction, clickedEntry, loading, dateRange, currentYear,
              availableYears, realFiresData, showComparison, evaluationMetrics,
              selectedPiles, availablePiles, fetchCall, evaluateCall,
              matrixVars, validateVars, metricsVars, formatVars,
              dashboardMounted, files, predicting, dashboardError, success,
              dashboardDateRange, predictCall, successTimers, uploading, error, queue,
              uploadCall, lastUpload, running, dropped, accepted, trace,
              serviceError, scriptVars>>

\* fetchPredictions of a calendar that has left: getPredictions resolved;
\* the setters do nothing, the storage is written
OrphanFetchResolve(responses) ==
  \E response \in responses :
    /\ uiIdle
    /\ orphanCalls.getPredictions > 0
    /\ orphanCalls' = [orphanCalls EXCEPT !.getPredictions = @ - 1]
    /\ localStorage' =
         IF response.date_range # None
         THEN [localStorage EXCEPT
                 !.predictionDateRange = Some(JSONstringify(response.date_range[1]))]
         ELSE localStorage
    /\ lastArrived' = Some(response.date_range)
    /\ UNCHANGED <<alertText, navigateTimers, uncaught, orphanUploads>>
    /\ orphanFrame

\* fetchPredictions of a calendar that has left: getPredictions rejected;
\* the catch block parses the stored list all the same
OrphanFetchReject ==
  /\ uiIdle
  /\ orphanCalls.getPredictions > 0
  /\ orphanCalls' = [orphanCalls EXCEPT !.getPredictions = @ - 1]
  /\ uncaught' =
       IF localStorage.predictions # None /\ JSONparseThrows(localStorage.predictions[1])
       THEN uncaught \cup {"fetchPredictions"}
       ELSE uncaught
  /\ UNCHANGED <<alertText, navigateTimers, localStorage, lastArrived, orphanUploads>>
  /\ orphanFrame

\* loadRealFiresData of a calendar that has left: evaluatePredictions
\* resolved; without the list the catch block raises its alert
OrphanEvaluateResolve(responses) ==
  \E response \in responses :
    /\ uiIdle
    /\ orphanCalls.evaluatePredictions > 0
    /\ orphanCalls' = [orphanCalls EXCEPT !.evaluatePredictions = @ - 1]
    /\ alertText' = IF response.matched_predictions = None
                    THEN Some("the response holds no comparison data")
                    ELSE alertText
    /\ UNCHANGED <<navigateTimers, localStorage, lastArrived, uncaught, orphanUploads>>
    /\ orphanFrame

\* loadRealFiresData of a calendar that has left: evaluatePredictions
\* rejected
OrphanEvaluateReject ==
  /\ uiIdle
  /\ orphanCalls.evaluatePredictions > 0
  /\ orphanCalls' = [orphanCalls EXCEPT !.evaluatePredictions = @ - 1]
  /\ alertText' = Some(errorMessage(responseInterceptor(serviceError)))
  /\ UNCHANGED <<navigateTimers, localStorage, lastArrived, uncaught, orphanUploads>>
  /\ orphanFrame

\* mutant: a response that arrives after its Dashboard has left the screen
\* is dropped
OrphanPredictResolve_dropped(responses) ==
  \E result \in responses :
    /\ uiIdle
    /\ orphanCalls.triggerPrediction > 0
    /\ orphanCalls' = [orphanCalls EXCEPT !.triggerPrediction = @ - 1]
    /\ lastArrived' = Some(result.date_range)
    /\ UNCHANGED <<alertText, uncaught, orphanUploads, localStorage, navigateTimers>>
    /\ orphanFrame

\* handlePredict of a Dashboard that has left the screen: triggerPrediction
\* resolved; the storage is written and the navigation timer started
OrphanPredictResolve(responses) ==
  \E result \in responses :
    /\ uiIdle
    /\ orphanCalls.triggerPrediction > 0
    /\ orphanCalls' = [orphanCalls EXCEPT !.triggerPrediction = @ - 1]
    /\ localStorage' =
         IF result.date_range # None
         THEN [localStorage EXCEPT
                 !.predictionDateRange = Some(JSONstringify(result.date_range[1]))]
         ELSE localStorage
    /\ lastArrived' = Some(result.date_range)
    /\ navigateTimers' = navigateTimers + 1
    /\ UNCHANGED <<alertText, uncaught, orphanUploads>>
    /\ orphanFrame

\* handlePredict of a Dashboard that has left the screen: triggerPrediction
\* rejected
OrphanPredictReject ==
  /\ uiIdle
  /\ orphanCalls.triggerPrediction > 0
  /\ orphanCalls' = [orphanCalls EXCEPT !.triggerPrediction = @ - 1]
  /\ UNCHANGED <<alertText, navigateTimers, localStorage, lastArrived, uncaught, orphanUploads>>
  /\ orphanFrame

\* onDrop from the file after a settled upload: the files the validation
\* refuses are passed over, the first it accepts is handed to onUpload
RECURSIVE nextUpload(_, _, _)
nextUpload(c, batch, env) ==
  IF batch = <<>> THEN EmptyBag
  ELSE IF onDropFile(c, Head(batch), env).request = None
  THEN nextUpload(c, Tail(batch), env)
  ELSE SetToBag({[control |-> c, file |-> Head(batch), rest |-> Tail(batch)]})

\* an upload awaited by a control of a Dashboard that has left the screen
\* resolved: handleUpload writes the flag of the fires file, onDrop goes on
\* to the next file of its batch
OrphanUploadResolve ==
  \E upload \in BagToSet(orphanUploads) :
    /\ uiIdle
    /\ orphanUploads' = (orphanUploads (-) SetToBag({upload}))
                          (+) nextUpload(upload.control, upload.rest, viteMaxFileSize)
    /\ localStorage' = IF upload.control = "fires"
                       THEN [localStorage EXCEPT !.firesUploaded = Some(TrueText)]
                       ELSE localStorage
    /\ UNCHANGED <<alertText, navigateTimers, lastArrived, uncaught, orphanCalls>>
    /\ orphanFrame

\* an upload awaited by a control of a Dashboard that has left the screen
\* rejected: onDrop catches and goes on to the next file of its batch
OrphanUploadReject ==
  \E upload \in BagToSet(orphanUploads) :
    /\ uiIdle
    /\ orphanUploads' = (orphanUploads (-) SetToBag({upload}))
                          (+) nextUpload(upload.control, upload.rest, viteMaxFileSize)
    /\ UNCHANGED <<alertText, navigateTimers, localStorage, lastArrived, uncaught, orphanCalls>>
    /\ orphanFrame

OrphanCallsSettle(predictResponses, evaluateResponses) ==
  \/ OrphanFetchResolve(predictResponses)
  \/ OrphanFetchReject
  \/ OrphanEvaluateResolve(evaluateResponses)
  \/ OrphanEvaluateReject
  \/ OrphanPredictResolve(predictResponses)
  \/ OrphanPredictReject
  \/ OrphanUploadResolve
  \/ OrphanUploadReject

(***************************************************************************)
(* start_all.sh (set -e): the checks, the two services started in the      *)
(* background, the health poll, cleanup and the trap                       *)
(***************************************************************************)
BackendPort == 8000
FrontendPort == 5173

\* for i in {1..10}
HealthAttempts == 10

Ports == {BackendPort, FrontendPort}
Commands == {"python3", "node", "npm"}

\* the script has not been launched
ScriptNotRun ==
  /\ scriptPc = "notRun"
  /\ portsInUse = {} /\ commandsMissing = {} /\ logsDirOk = TRUE
  /\ backend = "none" /\ backendReady = FALSE /\ frontend = "none"
  /\ attempt = 0
  /\ exitStatus = None /\ exitCause = "none"
  /\ backendSeenAlive = FALSE /\ healthAnswered = FALSE

\* the machine the script runs on does not change under it
machineKept == UNCHANGED <<portsInUse, commandsMissing, logsDirOk, nonScriptVars>>

\* `exit n`, or the end of the script under set -e
exit(status, cause) ==
  /\ scriptPc' = "exited"
  /\ exitStatus' = Some(status)
  /\ exitCause' = cause

\* kill $PID: a process that runs is stopped, kill of one that has ended
\* fails and `|| true` passes over it
kill(process) == IF process = "alive" THEN "stopped" ELSE process

\* cleanup(): kills the processes whose PID variable is set, then `exit 0`;
\* a statement that follows a call of cleanup is never reached
cleanup(cause) ==
  /\ backend' = kill(backend)
  /\ frontend' = kill(frontend)
  /\ backendReady' = FALSE
  /\ exit(0, cause)

\* check_port 8000 || exit 1; check_port 5173 || exit 1
CheckPorts ==
  /\ scriptPc = "checkPorts"
  /\ IF BackendPort \in portsInUse \/ FrontendPort \in portsInUse
     THEN exit(1, "portInUse")
     ELSE scriptPc' = "checkDependencies" /\ UNCHANGED <<exitStatus, exitCause>>
  /\ UNCHANGED <<backend, backendReady, frontend, attempt, backendSeenAlive, healthAnswered>>
  /\ machineKept

\* command -v python3, node, npm: the first one missing ends the script
CheckDependencies ==
  /\ scriptPc = "checkDependencies"
  /\ IF commandsMissing # {}
     THEN exit(1, "commandMissing")
     ELSE scriptPc' = "mkdir" /\ UNCHANGED <<exitStatus, exitCause>>
  /\ UNCHANGED <<backend, backendReady, frontend, attempt, backendSeenAlive, healthAnswered>>
  /\ machineKept

\* mkdir -p logs (its failure ends the script: set -e), then the trap is set
MakeLogsDir ==
  /\ scriptPc = "mkdir"
  /\ IF ~logsDirOk
     THEN exit(1, "mkdir")
     ELSE scriptPc' = "startBackend" /\ UNCHANGED <<exitStatus, exitCause>>
  /\ UNCHANGED <<backend, backendReady, frontend, attempt, backendSeenAlive, healthAnswered>>
  /\ machineKept

\* ./start_backend.sh > logs/backend.log 2>&1 &  and BACKEND_PID=$!
StartBackend ==
  /\ scriptPc = "startBackend"
  /\ backend' = "alive"
  /\ scriptPc' = "checkBackend"
  /\ UNCHANGED <<backendReady, frontend, attempt, exitStatus, exitCause,
                 backendSeenAlive, healthAnswered>>
  /\ machineKept

\* the backend process ends of its own accord, at any time
BackendDies ==
  /\ backend = "alive"
  /\ backend' = "dead"
  /\ backendReady' = FALSE
  /\ UNCHANGED <<scriptPc, frontend, attempt, exitStatus, exitCause,
                 backendSeenAlive, healthAnswered>>
  /\ machineKept

\* the backend begins to answer GET /health
BackendBecomesReady ==
  /\ backend = "alive" /\ ~backendReady
  /\ backendReady' = TRUE
  /\ UNCHANGED <<scriptPc, backend, frontend, attempt, exitStatus, exitCause,
                 backendSeenAlive, healthAnswered>>
  /\ machineKept

\* after sleep 5: if ! kill -0 $BACKEND_PID; then exit 1
CheckBackend ==
  /\ scriptPc = "checkBackend"
  /\ IF backend # "alive"
     THEN exit(1, "backendDied") /\ UNCHANGED <<attempt, backendSeenAlive>>
     ELSE /\ scriptPc' = "healthPoll"
          /\ attempt' = 1
          /\ backendSeenAlive' = TRUE
          /\ UNCHANGED <<exitStatus, exitCause>>
  /\ UNCHANGED <<backend, backendReady, frontend, healthAnswered>>
  /\ machineKept

\* mutant: the poll gives up after its last attempt and the script goes on
HealthPoll_goesOn ==
  /\ scriptPc = "healthPoll"
  /\ IF backendReady
     THEN /\ healthAnswered' = TRUE
          /\ scriptPc' = "startFrontend"
          /\ UNCHANGED <<attempt, backend, backendReady, frontend, exitStatus, exitCause>>
     ELSE IF attempt = HealthAttempts
          THEN /\ scriptPc' = "startFrontend"
               /\ UNCHANGED <<attempt, healthAnswered, backend, backendReady, frontend,
                              exitStatus, exitCause>>
          ELSE /\ attempt' = attempt + 1
               /\ UNCHANGED <<scriptPc, healthAnswered, backend, backendReady, frontend,
                              exitStatus, exitCause>>
  /\ UNCHANGED backendSeenAlive
  /\ machineKept

\* one pass of the loop: curl -s http://localhost:8000/health; break when it
\* answers, cleanup after the tenth failure, sleep 1 otherwise
HealthPoll ==
  /\ scriptPc = "healthPoll"
  /\ IF backendReady
     THEN /\ healthAnswered' = TRUE
          /\ scriptPc' = "startFrontend"
          /\ UNCHANGED <<attempt, backend, backendReady, frontend, exitStatus, exitCause>>
     ELSE IF attempt = HealthAttempts
          THEN cleanup("healthTimeout") /\ UNCHANGED <<attempt, healthAnswered>>
          ELSE /\ attempt' = attempt + 1
               /\ UNCHANGED <<scriptPc, healthAnswered, backend, backendReady, frontend,
                              exitStatus, exitCause>>
  /\ UNCHANGED backendSeenAlive
  /\ machineKept

\* ./start_frontend.sh > logs/frontend.log 2>&1 &  and FRONTEND_PID=$!
StartFrontend ==
  /\ scriptPc = "startFrontend"
  /\ frontend' = "alive"
  /\ scriptPc' = "checkFrontend"
  /\ UNCHANGED <<backend, backendReady, attempt, exitStatus, exitCause,
                 backendSeenAlive, healthAnswered>>
  /\ machineKept

\* the frontend process ends of its own accord, at any time
FrontendDies ==
  /\ frontend = "alive"
  /\ frontend' = "dead"
  /\ UNCHANGED <<scriptPc, backend, backendReady, attempt, exitStatus, exitCause,
                 backendSeenAlive, healthAnswered>>
  /\ machineKept

\* after sleep 8: if ! kill -0 $FRONTEND_PID; then cleanup; exit 1
CheckFrontend ==
  /\ scriptPc = "checkFrontend"
  /\ IF frontend # "alive"
     THEN cleanup("frontendDied")
     ELSE scriptPc' = "wait" /\ UNCHANGED <<backend, backendReady, frontend, exitStatus, exitCause>>
  /\ UNCHANGED <<attempt, backendSeenAlive, healthAnswered>>
  /\ machineKept

\* SIGINT or SIGTERM once `trap cleanup SIGINT SIGTERM` is set: bash runs
\* cleanup between two statements, or out of `wait`
Signal ==
  /\ scriptPc \in {"startBackend", "checkBackend", "healthPoll", "startFrontend",
                    "checkFrontend", "wait"}
  /\ cleanup("signal")
  /\ UNCHANGED <<attempt, backendSeenAlive, healthAnswered>>
  /\ machineKept

\* `wait` returns when both background processes have ended; the script
\* ends with it
WaitReturns ==
  /\ scriptPc = "wait"
  /\ backend # "alive" /\ frontend # "alive"
  /\ exit(0, "waitReturned")
  /\ UNCHANGED <<backend, backendReady, frontend, attempt, backendSeenAlive, healthAnswered>>
  /\ machineKept

(***************************************************************************)
(* The pure functions of services/dataProcessor.js, each applied to inputs *)
(* drawn by the initial state.                                             *)
(***************************************************************************)
\* no response has arrived and no exception has escaped
NothingObserved == lastArrived = None /\ uncaught = {}

\* a failing call gets no answer at all
NoAnswer == serviceError = None

NoFile == [name |-> <<>>, size |-> 0]

ValidateIdle == viteMaxFileSize = None /\ file = NoFile /\ validation = None

MetricsIdle ==
  metrics = None /\ summaryReturned = FALSE /\ summary = None /\ rendered = None

FormatIdle == formatArg = None /\ formatDecimals = 0 /\ formatted = None /\ timeZone = 0

NoFunctionCalled == ValidateIdle /\ MetricsIdle /\ FormatIdle

FileNames ==
  {<<"d", ".", "c", "s", "v">>, <<"d", ".", "t", "x", "t">>, <<"d", ".", "C", "S", "V">>,
   <<".", "c", "s", "v">>, <<"c", "s", "v">>, <<"d", ".", "c", "s", "v", ".", "t", "x", "t">>,
   <<"d", "c", "s", "v">>, <<>>}

FileSizes == {0, 1, 1024, 1025, DefaultMaxFileSize - 1, DefaultMaxFileSize,
              DefaultMaxFileSize + 1, 2 * DefaultMaxFileSize}

MaxFileSizeSettings == {None, Some(0), Some(1024)}

\* validation = validateCSVFile(file)
Validate ==
  /\ validation = None
  /\ validation' = Some(validateCSVFile(file, viteMaxFileSize))
  /\ UNCHANGED <<viteMaxFileSize, file, calendarVars, matrixVars, metricsVars, formatVars,
                 dashboardVars, localStorage, lastArrived, uncaught, serviceError, scriptVars, routerVars>>

InitValidate ==
  /\ DashboardUnmounted
  /\ CalendarUnmounted
  /\ MatrixUnmounted
  /\ MetricsIdle
  /\ FormatIdle
  /\ NothingObserved
  /\ ScriptNotRun
  /\ NoOrphans
  /\ NoAnswer
  /\ localStorage = Storage(None, None)
  /\ viteMaxFileSize \in MaxFileSizeSettings
  /\ file \in [name : FileNames, size : FileSizes]
  /\ validation = None

NextValidate == Validate

SpecValidate == InitValidate /\ [][NextValidate]_vars

Fractions == {None, Some(0), Some(6999), Some(7000), Some(7001), Some(10000)}

MetricsObjects ==
  [mae : {None, Some(0), Some(18500)}, rmse : {None, Some(23400)},
   accuracy_pm1 : {None, Some(5200)}, accuracy_pm2 : Fractions,
   accuracy_pm3 : {None, Some(8500)},
   total_predictions : {None, Some(0), Some(100)}, correct_pm2 : {None, Some(73)}]

\* summary = calculateMetricsSummary(metrics)
Summarize ==
  /\ ~summaryReturned
  /\ summaryReturned' = TRUE
  /\ summary' = calculateMetricsSummary(metrics)
  /\ UNCHANGED <<metrics, rendered, calendarVars, matrixVars, validateVars, formatVars,
                 dashboardVars,
                 localStorage, lastArrived, uncaught, serviceError, scriptVars, routerVars>>

InitMetrics ==
  /\ DashboardUnmounted
  /\ CalendarUnmounted
  /\ MatrixUnmounted
  /\ ValidateIdle
  /\ FormatIdle
  /\ NothingObserved
  /\ ScriptNotRun
  /\ NoOrphans
  /\ NoAnswer
  /\ localStorage = Storage(None, None)
  /\ metrics \in {None} \cup {Some(m) : m \in MetricsObjects}
  /\ rendered = None
  /\ summaryReturned = FALSE
  /\ summary = None

\* the three views drawn for the metrics object, the panel of the calendar
\* with the comparison shown or not
RenderMetrics ==
  /\ rendered = None
  /\ \E show \in BOOLEAN :
       rendered' = Some([showComparison |-> show,
                         panel |-> metricsSummaryPanel(metrics, show),
                         table |-> metricsTable(metrics),
                         chart |-> MetricsChart(metrics)])
  /\ UNCHANGED <<metrics, summaryReturned, summary, calendarVars, matrixVars, validateVars,
                 formatVars, dashboardVars, localStorage, lastArrived, uncaught,
                 serviceError, scriptVars, routerVars>>

NextMetrics == Summarize \/ RenderMetrics

SpecMetrics == InitMetrics /\ [][NextMetrics]_vars

\* the values, missing or not, a formatter is called with
JsValues ==
  {JsNull, JsUndefined, JsNaN}
    \cup {JsNumber(n) : n \in {-7349, 0, 1, 7349, 9999, 10000, 12346, 18600, 52000,
                               123456}}
    \cup {JsString(t) : t \in {"", "abc", "critical", "high", "HIGH", "Medium", "low",
                               "extreme"}}
    \cup {JsIsoDate(20250101), JsIsoDate(20241231)}

Decimals == {0, 1, 2}

\* the zones the browser runs in: America/New_York, UTC and Europe/Moscow
\* at the epoch, in minutes east of UTC
TimeZones == {-300, 0, 180}

\* every formatter called on formatArg, the numeric ones with formatDecimals,
\* all with their default placeholder
Format ==
  /\ formatted = None
  /\ formatted' =
       Some([formatDate |-> formatDate(formatArg, timeZone),
             formatDateTime |-> formatDateTime(formatArg, timeZone),
             formatValue |-> formatValue(formatArg, Dash),
             formatNumber |-> formatNumber(formatArg, formatDecimals, Dash),
             formatPercentage |-> formatPercentage(formatArg, formatDecimals, Dash),
             formatConfidence |-> formatConfidence(formatArg, Dash),
             getRiskLabel |-> getRiskLabel(formatArg)])
  /\ UNCHANGED <<formatArg, formatDecimals, timeZone, calendarVars, matrixVars, validateVars,
                 metricsVars, dashboardVars, localStorage, lastArrived, uncaught,
                 serviceError, scriptVars, routerVars>>

InitFormat ==
  /\ DashboardUnmounted
  /\ CalendarUnmounted
  /\ MatrixUnmounted
  /\ ValidateIdle
  /\ MetricsIdle
  /\ NothingObserved
  /\ ScriptNotRun
  /\ NoOrphans
  /\ NoAnswer
  /\ localStorage = Storage(None, None)
  /\ formatArg \in JsValues
  /\ formatDecimals \in Decimals
  /\ timeZone \in TimeZones
  /\ formatted = None

NextFormat == Format

SpecFormat == InitFormat /\ [][NextFormat]_vars

(***************************************************************************)
(* SpecUpload: Dashboard, files dropped on its four controls, the page     *)
(* left for /metrics and opened again with uploads still awaited           *)
(***************************************************************************)
CsvFile == [name |-> <<"a", ".", "c", "s", "v">>, size |-> 1024]

TextFile == [name |-> <<"a", ".", "t", "x", "t">>, size |-> 1024]

LargeCsvFile == [name |-> <<"b", ".", "c", "s", "v">>, size |-> DefaultMaxFileSize + 1]

DroppedFiles == {CsvFile, TextFile, LargeCsvFile}

InitUpload ==
  /\ DashboardMounted
  /\ CalendarUnmounted
  /\ MatrixUnmounted
  /\ MetricsIdle
  /\ FormatIdle
  /\ viteMaxFileSize \in {None, Some(1024)}
  /\ file = NoFile
  /\ validation = None
  /\ NothingObserved
  /\ ScriptNotRun
  /\ NoOrphans
  /\ NoAnswer
  /\ localStorage = Storage(None, None)

NextUpload ==
  \/ DropFiles(SeqsUpTo(DroppedFiles, 1), SeqsUpTo(DroppedFiles, MaxBatch))
  \/ ProcessFile
  \/ UploadResolve
  \/ UploadReject
  \/ ClearSuccess
  \/ handleRemoveWeatherFile
  \/ OpenMetrics
  \/ OpenDashboard
  \/ OrphanUploadResolve
  \/ OrphanUploadReject

SpecUpload == InitUpload /\ [][NextUpload]_vars

(***************************************************************************)
(* SpecApp: Dashboard, the calendar and /metrics, opened from one another  *)
(* by the header links and by the timer of a prediction                    *)
(***************************************************************************)
AppPredictResponses ==
  {[predictions |-> <<Prediction(1, "high", DateString(2025, 1, 1))>>,
    date_range |-> Some(DateRange(Some(<<2024, 2025>>), Some(2025)))],
   [predictions |-> <<Prediction(1, "high", DateString(2024, 12, 31))>>,
    date_range |-> Some(DateRange(Some(<<2024>>), Some(2024)))]}

AppEvaluateResponses ==
  EvaluateResponses({<<Match(1, TRUE, DateString(2025, 1, 1), DateString(2025, 1, 1))>>})

\* the body of a failing call and the storage at the start: a `message`
\* with a stored list, a `detail` with a stored text that is no JSON
AppAtOpen ==
  {<<Some(ErrorBody(Some(MessageText), None)),
     Storage(None, Some(JSONstringify(<<Prediction(1, "high", DateString(2025, 1, 1))>>)))>>,
   <<Some(ErrorBody(None, Some(DetailText))), Storage(None, Some(CorruptText))>>}

InitApp ==
  /\ DashboardMounted
  /\ CalendarUnmounted
  /\ MatrixUnmounted
  /\ NoFunctionCalled
  /\ NothingObserved
  /\ ScriptNotRun
  /\ NoOrphans
  /\ \E open \in AppAtOpen : serviceError = open[1] /\ localStorage = open[2]

NextApp ==
  \/ DropFiles({<<CsvFile>>}, {<<CsvFile>>})
  \/ ProcessFile
  \/ UploadResolve
  \/ UploadReject
  \/ ClearSuccess
  \/ handleRemoveWeatherFile
  \/ PredictClick
  \/ PredictResolve(AppPredictResponses)
  \/ PredictReject
  \/ OpenCalendar
  \/ OpenDashboard
  \/ OpenMetrics
  \/ NavigateTimerFires
  \/ OrphanCallsSettle(AppPredictResponses, AppEvaluateResponses)
  \/ FetchPredictionsResolve(AppPredictResponses)
  \/ EvaluateResolve(AppEvaluateResponses)
  \/ CalendarHandlers

SpecApp == InitApp /\ [][NextApp]_vars

(***************************************************************************)
(* SpecCalendar: the calendar page with every prediction list of at most   *)
(* MaxPreds records; the evaluation answers one short list.                *)
(***************************************************************************)
CalendarPredictResponses ==
  PredictResponses(SeqsUpTo(PredictionRecords({"critical"})
                              \cup {Prediction(1, "unknown", DateString(2025, 1, 1))},
                            MaxPreds),
                   {None, Some(DateRange(Some(<<2024, 2025>>), None))})

CalendarEvaluateResponses ==
  EvaluateResponses({<<Match(1, TRUE, DateString(2025, 1, 1), DateString(2025, 1, 1))>>})

InitCalendar ==
  /\ DashboardUnmounted
  /\ CalendarMounted
  /\ MatrixUnmounted
  /\ NoFunctionCalled
  /\ NothingObserved
  /\ ScriptNotRun
  /\ NoOrphans
  /\ NoAnswer
  /\ localStorage \in {Storage(None, None),
                        Storage(Some(TrueText),
                                Some(JSONstringify(<<Prediction(1, "high", DateString(2025, 1, 1))>>)))}

NextCalendar ==
  \/ FetchPredictionsResolve(CalendarPredictResponses)
  \/ EvaluateResolve(CalendarEvaluateResponses)
  \/ CalendarHandlers

SpecCalendar == InitCalendar /\ [][NextCalendar]_vars

(***************************************************************************)
(* SpecRisk: the calendar page with prediction lists over every risk       *)
(* level.                                                                  *)
(***************************************************************************)
\* a record the service calls low although its fire is due at once
DueLow ==
  [Prediction(1, "low", DateString(2025, 1, 1)) EXCEPT
     !.observation_date = DateString(2025, 1, 1),
     !.predicted_days_to_fire = 2000,
     !.predicted_days_to_fire_rounded = 0]

RiskPredictResponses ==
  PredictResponses(SeqsUpTo({Prediction(1, r, DateString(2025, 1, 1)) : r \in RiskLevels}
                              \cup {Prediction(2, "high", DateString(2025, 1, 1)), DueLow},
                            MaxPreds),
                   {Some(DateRange(Some(<<2024, 2025>>), None))})

NextRisk ==
  \/ FetchPredictionsResolve(RiskPredictResponses)
  \/ EvaluateResolve(CalendarEvaluateResponses)
  \/ CalendarHandlers

SpecRisk == InitCalendar /\ [][NextRisk]_vars

(***************************************************************************)
(* SpecCompare: the calendar page with every matched_predictions list of   *)
(* at most MaxMatches records over a few prediction lists.                 *)
(***************************************************************************)
ComparePredictResponses ==
  {[predictions |-> <<>>, date_range |-> None],
   [predictions |-> <<Prediction(1, "high", DateString(2025, 1, 1))>>,
    date_range |-> Some(DateRange(Some(<<2024, 2025>>), None))],
   [predictions |-> <<Prediction(1, "critical", DateString(2024, 12, 31)),
                      Prediction(2, "low", DateString(2025, 1, 1))>>,
    date_range |-> Some(DateRange(Some(<<2024, 2025>>), Some(2024)))]}

CompareEvaluateResponses == EvaluateResponses(SeqsUpTo(MatchRecords, MaxMatches))

InitCompare ==
  /\ DashboardUnmounted
  /\ CalendarMounted
  /\ MatrixUnmounted
  /\ NoFunctionCalled
  /\ NothingObserved
  /\ ScriptNotRun
  /\ NoOrphans
  /\ NoAnswer
  /\ localStorage = Storage(Some(TrueText), None)

NextCompare ==
  \/ FetchPredictionsResolve(ComparePredictResponses)
  \/ EvaluateResolve(CompareEvaluateResponses)
  \/ CalendarHandlers

SpecCompare == InitCompare /\ [][NextCompare]_vars

(***************************************************************************)
(* SpecDetail: the calendar page with its entries clicked, over lists that *)
(* hold several records of a pile, with and without the comparison.        *)
(***************************************************************************)
DetailPredictResponses ==
  PredictResponses(SeqsUpTo({Prediction(1, "high", DateString(2025, 1, 1)), DueLow,
                             Prediction(2, "medium", DateString(2025, 1, 1))},
                            MaxPreds),
                   {Some(DateRange(Some(<<2024, 2025>>), None))})

DetailEvaluateResponses ==
  EvaluateResponses({<<Match(1, TRUE, DateString(2025, 1, 1), DateString(2025, 1, 1))>>,
                     <<Match(2, FALSE, DateString(2024, 12, 31), DateString(2025, 1, 1))>>})

NextDetail ==
  \/ FetchPredictionsResolve(DetailPredictResponses)
  \/ EvaluateResolve(DetailEvaluateResponses)
  \/ CalendarHandlers

SpecDetail == InitCompare /\ [][NextDetail]_vars

(***************************************************************************)
(* SpecScript: start_all.sh launched on machines with any of the ports in  *)
(* use and any of the commands missing.                                    *)
(***************************************************************************)
InitScript ==
  /\ DashboardUnmounted
  /\ CalendarUnmounted
  /\ MatrixUnmounted
  /\ NoFunctionCalled
  /\ lastArrived = None /\ uncaught = {}
  /\ NoOrphans
  /\ NoAnswer
  /\ localStorage = Storage(None, None)
  /\ scriptPc = "checkPorts"
  /\ portsInUse \in SUBSET Ports
  /\ commandsMissing \in SUBSET Commands
  /\ logsDirOk \in BOOLEAN
  /\ backend = "none" /\ backendReady = FALSE /\ frontend = "none"
  /\ attempt = 0
  /\ exitStatus = None /\ exitCause = "none"
  /\ backendSeenAlive = FALSE /\ healthAnswered = FALSE

NextScript ==
  \/ CheckPorts
  \/ CheckDependencies
  \/ MakeLogsDir
  \/ StartBackend
  \/ BackendDies
  \/ BackendBecomesReady
  \/ CheckBackend
  \/ HealthPoll
  \/ StartFrontend
  \/ FrontendDies
  \/ CheckFrontend
  \/ Signal
  \/ WaitReturns

SpecScript == InitScript /\ [][NextScript]_vars

(***************************************************************************)
(* SpecMatrix: the matrix page over every stored prediction list of at     *)
(* most MaxStored records.                                                  *)
(***************************************************************************)
MatrixRecords ==
  {Prediction(1, r, d) : r \in RiskLevels \cup {"extreme", Undefined},
                         d \in FireDates \cup {NoDate, InvalidDateString}}
  \cup {Prediction(2, "low", d) : d \in FireDates}
  \cup {[Prediction(2, "high", DateString(2025, 1, 1)) EXCEPT !.observation_date = NoDate]}

InitMatrix ==
  /\ DashboardUnmounted
  /\ CalendarUnmounted
  /\ MatrixUnmounted
  /\ NoFunctionCalled
  /\ NothingObserved
  /\ ScriptNotRun
  /\ NoOrphans
  /\ NoAnswer
  /\ localStorage \in
       {Storage(None, p) :
          p \in {None, Some(CorruptText)}
                \cup {Some(JSONstringify(l)) : l \in SeqsUpTo(MatrixRecords, MaxStored)}}

NextMatrix ==
  \/ MatrixMount
  \/ MountEffects
  \/ StatsEffect
  \/ SelectDate
  \/ handlePileClick
  \/ DismissAlert
  \/ MatrixUnmount

SpecMatrix == InitMatrix /\ [][NextMatrix]_vars

(***************************************************************************)
(* Claims about the calendar event list.                                   *)
(***************************************************************************)
\* the prediction record an entry of the plain list carries
recordOf(entry) ==
  [field \in DOMAIN entry.extendedProps \ {"pileId", "daysToFire"} |->
     entry.extendedProps[field]]

\* the entries of the event list that show prediction record p at its date
entriesFor(p) ==
  {j \in 1..Len(events) :
     recordOf(events[j]) = p /\ events[j].start = p.predicted_fire_date}

copiesOf(p) == {i \in 1..Len(predictions) : predictions[i] = p}

\* the calendar year a date value falls in is `year`
fallsIn(date, year) == date.ymd # <<>> /\ date.ymd[1] = year

eligible(p) == p.risk_level \in RiskLevels /\ p.pile_id \in selectedPiles

\* C1 as stated: with showComparison false, every prediction with one of the
\* four risk levels and a selected pile appears exactly once in the event
\* list, dated at its predicted_fire_date.
C1_AsStated ==
  ~showComparison =>
    \A i \in 1..Len(predictions) :
      eligible(predictions[i]) =>
        Cardinality(entriesFor(predictions[i])) = Cardinality(copiesOf(predictions[i]))

\* C1 amended: with showComparison false, a prediction with one of the four
\* risk levels and a selected pile appears exactly once in the event list,
\* dated at its predicted_fire_date, when that date falls in currentYear, and
\* does not appear when the date is absent or falls in another year.
C1_EventsShowSelectedPredictionsOfYear ==
  ~showComparison =>
    \A i \in 1..Len(predictions) :
      eligible(predictions[i]) =>
        Cardinality(entriesFor(predictions[i])) =
          IF fallsIn(predictions[i].predicted_fire_date, currentYear)
          THEN Cardinality(copiesOf(predictions[i]))
          ELSE 0

\* C1 witness: two eligible predictions of selected piles, one shown and one
\* dropped by the year filter.
C1_Witness ==
  /\ ~showComparison
  /\ Len(events) = 1
  /\ \E i, j \in 1..Len(predictions) :
       /\ eligible(predictions[i]) /\ eligible(predictions[j])
       /\ fallsIn(predictions[i].predicted_fire_date, currentYear)
       /\ ~fallsIn(predictions[j].predicted_fire_date, currentYear)

\* C2 as stated: the event list holds no entry whose pile id is not in
\* selectedPiles, in both modes.
C2_AsStated ==
  \A j \in 1..Len(events) : events[j].extendedProps.pileId \in selectedPiles

\* C2 amended: whenever selectedPiles is not empty, the event list holds no
\* entry whose pile id is not in selectedPiles, in both modes (an empty
\* selection filters nothing out).
C2_NoEntryOfExcludedPile ==
  selectedPiles # {} =>
    \A j \in 1..Len(events) : events[j].extendedProps.pileId \in selectedPiles

\* C2 witness: comparison mode, pile 2 switched off while it has a match record
\* in the displayed year, and pile 1's entries are shown.
C2_Witness ==
  /\ comparisonShown(showComparison, realFiresData)
  /\ selectedPiles = {1}
  /\ availablePiles = <<1, 2>>
  /\ Len(events) > 0
  /\ \E i \in 1..Len(realFiresData[1]) :
       /\ realFiresData[1][i].pile_id = 2
       /\ fallsIn(realFiresData[1][i].real_fire_date, currentYear)

included(m) == pileIncluded(selectedPiles, m)

fires == realFiresData[1]

\* the 'match' entries of the event list that show match record m
matchEntriesFor(m) ==
  {j \in 1..Len(events) :
     /\ events[j].extendedProps.type = "match"
     /\ events[j].start = NewDate(m.real_fire_date)
     /\ events[j].extendedProps.pileId = m.pile_id
     /\ events[j].extendedProps.predictedDate = m.predicted_fire_date
     /\ events[j].extendedProps.realDate = m.real_fire_date
     /\ events[j].extendedProps.stockyard = m.stockyard
     /\ events[j].extendedProps.coalGrade = m.coal_grade}

\* the 'prediction' entries that show the predicted fire of match record m
predictionEntriesFor(m) ==
  {j \in 1..Len(events) :
     /\ events[j].extendedProps.type = "prediction"
     /\ events[j].start = NewDate(m.predicted_fire_date)
     /\ events[j].extendedProps.pileId = m.pile_id
     /\ events[j].extendedProps.stockyard = m.stockyard
     /\ events[j].extendedProps.coalGrade = m.coal_grade}

\* the 'real' entries that show the real fire of match record m
realEntriesFor(m) ==
  {j \in 1..Len(events) :
     /\ events[j].extendedProps.type = "real"
     /\ events[j].start = NewDate(m.real_fire_date)
     /\ events[j].extendedProps.pileId = m.pile_id
     /\ events[j].extendedProps.stockyard = m.stockyard
     /\ events[j].extendedProps.coalGrade = m.coal_grade}

\* the match records that push the same entry as m
sameMatch(m) == {i \in 1..Len(fires) : fires[i] = m}
samePredicted(m) ==
  {i \in 1..Len(fires) :
     /\ ~fires[i].is_match
     /\ fires[i].pile_id = m.pile_id
     /\ fires[i].predicted_fire_date = m.predicted_fire_date
     /\ fires[i].stockyard = m.stockyard /\ fires[i].coal_grade = m.coal_grade}
sameReal(m) ==
  {i \in 1..Len(fires) :
     /\ ~fires[i].is_match
     /\ fires[i].pile_id = m.pile_id
     /\ fires[i].real_fire_date = m.real_fire_date
     /\ fires[i].stockyard = m.stockyard /\ fires[i].coal_grade = m.coal_grade}

\* C3 as stated: in comparison mode every included match record with
\* is_match true has exactly one 'match' entry anchored at real_fire_date and
\* every included record with is_match false has exactly one 'prediction'
\* entry anchored at predicted_fire_date and one 'real' entry anchored at
\* real_fire_date, each carrying pile id, stockyard and coal grade.
C3_AsStated ==
  (showComparison /\ realFiresData # None) =>
    \A i \in 1..Len(fires) :
      included(fires[i]) =>
        IF fires[i].is_match
        THEN Cardinality(matchEntriesFor(fires[i])) = Cardinality(sameMatch(fires[i]))
        ELSE /\ Cardinality(predictionEntriesFor(fires[i])) = Cardinality(samePredicted(fires[i]))
             /\ Cardinality(realEntriesFor(fires[i])) = Cardinality(sameReal(fires[i]))

shownIf(date, n) == IF fallsIn(date, currentYear) THEN n ELSE 0

\* C3 amended: in comparison mode with a non-empty prediction list, an
\* included match record with is_match true has exactly one 'match' entry
\* anchored at real_fire_date when that date falls in currentYear and none
\* otherwise; an included record with is_match false has one 'prediction'
\* entry anchored at predicted_fire_date when that date falls in currentYear
\* and one 'real' entry anchored at real_fire_date when that date falls in
\* currentYear; each entry carries pile id, stockyard and coal grade.
C3_ComparisonEntriesPerMatch ==
  (showComparison /\ realFiresData # None /\ Len(predictions) > 0) =>
    \A i \in 1..Len(fires) :
      included(fires[i]) =>
        IF fires[i].is_match
        THEN Cardinality(matchEntriesFor(fires[i])) =
               shownIf(fires[i].real_fire_date, Cardinality(sameMatch(fires[i])))
        ELSE /\ Cardinality(predictionEntriesFor(fires[i])) =
                  shownIf(fires[i].predicted_fire_date, Cardinality(samePredicted(fires[i])))
             /\ Cardinality(realEntriesFor(fires[i])) =
                  shownIf(fires[i].real_fire_date, Cardinality(sameReal(fires[i])))

\* C3 witness: comparison mode showing a match and a miss whose predicted
\* and real dates fall in different years, so that three entries were built
\* and two are shown.
C3_Witness ==
  /\ showComparison /\ realFiresData # None /\ Len(predictions) > 0
  /\ Len(fires) = 2
  /\ Len(events) = 2
  /\ \E i, j \in 1..2 :
       /\ included(fires[i]) /\ fires[i].is_match
       /\ fallsIn(fires[i].real_fire_date, currentYear)
       /\ included(fires[j]) /\ ~fires[j].is_match
       /\ fallsIn(fires[j].real_fire_date, currentYear)
       /\ ~fallsIn(fires[j].predicted_fire_date, currentYear)

\* C4 as stated: with selectedPiles empty the event list equals the one
\* computed with all available piles selected, in both modes.
C4_AsStated ==
  selectedPiles = {} =>
    events = eventsOf(predictions, Range(availablePiles), currentYear,
                      showComparison, realFiresData)

\* every pile id that occurs in the prediction list or in the match list
pilesOfRecords ==
  {predictions[i].pile_id : i \in 1..Len(predictions)}
  \cup (IF realFiresData = None THEN {} ELSE {fires[i].pile_id : i \in 1..Len(fires)})

\* C4 amended: with selectedPiles empty the pile filter includes every
\* prediction and every match record: the event list equals the one computed
\* with every pile of the prediction list and of the match list selected, in
\* both modes (all available piles selected give the same list only when
\* every match record's pile is an available pile).
C4_EmptySelectionIncludesAll ==
  selectedPiles = {} =>
    events = eventsOf(predictions, pilesOfRecords, currentYear,
                      showComparison, realFiresData)

\* C4 witness: comparison mode after the selection was emptied, entries of
\* two piles shown.
C4_Witness ==
  /\ selectedPiles = {}
  /\ availablePiles = <<1, 2>>
  /\ comparisonShown(showComparison, realFiresData)
  /\ \E j, k \in 1..Len(events) :
       events[j].extendedProps.pileId # events[k].extendedProps.pileId

countIn(list, e) == Cardinality({j \in 1..Len(list) : list[j] = e})

\* C5: in both modes every entry of the event list is anchored in
\* currentYear, and every entry built before the post-filter that is
\* anchored in currentYear is in the event list (as often as it was built).
C5_EventsAreTheEntriesOfCurrentYear ==
  /\ \A j \in 1..Len(events) : fallsIn(events[j].start, currentYear)
  /\ \A j \in 1..Len(allEvents) :
       fallsIn(allEvents[j].start, currentYear) =>
         countIn(events, allEvents[j]) = countIn(allEvents, allEvents[j])

\* C5 witness: comparison mode after handleYearChange moved the page off the
\* response's primary year; some built entries are shown and some dropped.
C5_Witness ==
  /\ comparisonShown(showComparison, realFiresData)
  /\ dateRange # None
  /\ currentYear # primaryYearOf(dateRange[1])
  /\ Len(events) > 0
  /\ Len(events) < Len(allEvents)

(***************************************************************************)
(* Claims about the matrix page.                                           *)
(***************************************************************************)
\* the stored predictions dated at the selected date
onSelectedDate ==
  {i \in 1..Len(matrixPredictions) :
     matrixPredictions[i].predicted_fire_date = selectedDate[1]}

\* C6: for the selected date, once the statistics have been computed for it,
\* critical + high + medium + low = total = the number of predictions dated
\* at it, a record whose risk_level is missing or not one of the four levels
\* being counted under low.
C6_AsStated ==
  (matrixMounted /\ selectedDate # None /\ matrixEffects = "none") =>
    /\ dateStats.total = Cardinality(onSelectedDate)
    /\ dateStats.critical + dateStats.high + dateStats.medium + dateStats.low
         = dateStats.total
    /\ dateStats.low =
         Cardinality({i \in onSelectedDate :
                        matrixPredictions[i].risk_level \notin {"critical", "high", "medium"}})

(***************************************************************************)
(* Claims about the pure functions.                                        *)
(***************************************************************************)
\* the maximum the build is configured with
configuredMaximum == IF viteMaxFileSize = None THEN 52428800 ELSE viteMaxFileSize[1]

\* the name is some text followed by ".csv"
csvName(name) == \E k \in 0..Len(name) : name = SubSeq(name, 1, k) \o <<".", "c", "s", "v">>

namedCsv == csvName(file.name)

\* C7: validateCSVFile returns {valid: false, error} for a name that does not
\* end in '.csv' whatever the size, {valid: false, error} for a '.csv' file
\* larger than the configured maximum (default 52428800), and {valid: true}
\* for a '.csv' file of at most the maximum, the maximum itself included.
C7_ValidateCSVFile ==
  validation # None =>
    /\ ~namedCsv => (~validation[1].valid /\ validation[1].error # None)
    /\ (namedCsv /\ file.size > configuredMaximum) =>
         (~validation[1].valid /\ validation[1].error # None)
    /\ (namedCsv /\ file.size <= configuredMaximum) =>
         validation[1] = [valid |-> TRUE, error |-> None]

\* C7 witness: a '.csv' file of exactly the default maximum was accepted
C7_Witness ==
  /\ validation # None
  /\ viteMaxFileSize = None
  /\ namedCsv
  /\ file.size = 52428800
  /\ validation[1].valid

\* C8: calculateMetricsSummary returns null for null/undefined metrics, and
\* otherwise a summary whose meetsTarget is true exactly when accuracy_pm2 is
\* at least 0.70 (7000/10000).
C8_MeetsTargetFromSeventyPercent ==
  summaryReturned =>
    IF metrics = None THEN summary = None
    ELSE /\ summary # None
         /\ summary[1].meetsTarget =
              (metrics[1].accuracy_pm2 # None /\ metrics[1].accuracy_pm2[1] >= 7000)

\* C8 witness: a summary computed for accuracy_pm2 = 0.70 meets the target
C8_Witness ==
  /\ summaryReturned
  /\ metrics # None
  /\ metrics[1].accuracy_pm2 = Some(7000)
  /\ summary[1].meetsTarget

(***************************************************************************)
(* Claims about failures.                                                  *)
(***************************************************************************)
\* this step is the rejection of the upload control c awaits
uploadFails(c) ==
  uploadCall[c] # None /\ uploadCall'[c] = None /\ lastUpload'[c] = "rejected"

predictionFails == predictCall = "pending" /\ predictCall' = "rejected"

fetchFails == fetchCall = "pending" /\ fetchCall' = "rejected"

evaluationFails == evaluateCall = "pending" /\ evaluateCall' = "rejected"

\* this step is the rest of the catch block of a failed evaluation, run once
\* its alert is dismissed
alertDismissed == catchSuspended /\ alertText' = None

\* everything but the error messages, the busy flags and the bookkeeping of
\* the calls themselves, the prediction list aside
restKept ==
  UNCHANGED <<dashboardMounted, files, success, dashboardDateRange, successTimers,
              navigateTimers, queue, dropped, selectedPrediction, clickedEntry, dateRange, currentYear,
              availableYears, realFiresData, showComparison, evaluationMetrics,
              selectedPiles, availablePiles, matrixVars, localStorage>>

\* C9 as stated: a failed upload, prediction call, prediction fetch or
\* evaluation call changes no state but the error message and the busy flag;
\* the calendar's prediction list keeps its value too.
C9_AsStated ==
  [][((\E c \in Controls : uploadFails(c)) \/ predictionFails \/ fetchFails
      \/ evaluationFails \/ alertDismissed) => (restKept /\ UNCHANGED predictions)]_vars

\* C9: a failed upload, prediction call or evaluation call changes no state
\* but the error message and the busy flag (files, date range, the persisted
\* keys, predictions, selected piles, comparison data and showComparison keep
\* their values); a failed prediction fetch of the calendar changes nothing
\* else either, except that it replaces predictions by the list stored under
\* 'predictions' when that key holds parsable JSON.
C9_FailureKeepsStateButFallback ==
  [][/\ ((\E c \in Controls : uploadFails(c)) \/ predictionFails \/ evaluationFails
          \/ alertDismissed)
          => (restKept /\ UNCHANGED predictions)
     /\ fetchFails
          => /\ restKept
             /\ predictions' =
                  IF localStorage.predictions # None
                     /\ localStorage.predictions[1].kind = "json"
                  THEN localStorage.predictions[1].value
                  ELSE predictions]_vars

\* C9 witness: an upload recorded the fires file on Dashboard, and on the
\* calendar the evaluation failed after the fetch had delivered predictions;
\* the alert is dismissed and the busy flag is down again
C9_Witness ==
  /\ localStorage.firesUploaded = Some(TrueText)
  /\ evaluateCall = "rejected"
  /\ alertText = None
  /\ ~loading
  /\ predictions # <<>>
  /\ selectedPiles # {}

\* the file passes the validation of the build
passes(f) == csvName(f.name) /\ f.size <= configuredMaximum

\* C10: no upload request is ever outstanding for a file that fails
\* validateCSVFile, and the step of the drop handler that examines such a
\* file (single or multiple mode) issues no request and sets the control's
\* error message.
C10_InvalidFileNeverUploaded ==
  [][\A c \in Controls :
       /\ uploadCall'[c] # None => passes(uploadCall'[c][1])
       /\ (running = Some(c) /\ queue[c] # <<>> /\ ~passes(Head(queue[c])))
            => /\ queue'[c] = Tail(queue[c])
               /\ uploadCall'[c] = None
               /\ error'[c] # None]_vars

\* C10 witness: a single-file control and the weather control each refused a
\* file, an oversize one among them, and nothing was uploaded
C10_Witness ==
  /\ error["supplies"] # None
  /\ error["weather"] = Some(<<LargeCsvFile.name, ": ",
                               <<"The file size must not exceed ", <<5000, "MB">>>>>>)
  /\ \A c \in Controls : lastUpload[c] = "none" /\ uploadCall[c] = None
  /\ running = None

\* the files the drop handler of control c has looked at since the last drop,
\* in the order it looked at them
examined(c) ==
  LET looks == SelectSeq(trace[c], LAMBDA e : e.event \in {"refused", "onUpload"})
  IN [i \in 1..Len(looks) |-> looks[i].file]

\* the handler of control c has finished with the batch of its last drop
batchDone(c) == queue[c] = <<>> /\ uploadCall[c] = None /\ running # Some(c)

\* C11: in multiple mode the drop handler looks at the dropped files in list
\* order, each once and none skipped, whatever happened to the files before;
\* it calls onUpload for exactly the files that pass the validation; after a
\* call of onUpload the next thing it does is see that call settle, so no
\* upload starts before the previous one has settled; and while files of the
\* batch remain, the handler is running or awaiting an upload, so a finished
\* handler has attempted every valid file of the batch exactly once.
C11_MultipleModeIsSequentialAndComplete ==
  \A c \in Controls :
    multiple(c) =>
      /\ examined(c) \o queue[c] = accepted[c]
      /\ \A i \in 1..Len(trace[c]) :
           LET e == trace[c][i]
           IN /\ e.event = "onUpload" => passes(e.file)
              /\ e.event = "refused" => ~passes(e.file)
              /\ e.event = "onUpload" /\ i < Len(trace[c])
                   => /\ trace[c][i + 1].event \in {"resolved", "rejected"}
                      /\ trace[c][i + 1].file = e.file
              /\ e.event = "onUpload" /\ i = Len(trace[c]) => uploadCall[c] = Some(e.file)
              /\ e.event \in {"resolved", "rejected"}
                   => i > 1 /\ trace[c][i - 1] = [event |-> "onUpload", file |-> e.file]
      /\ queue[c] # <<>> => running = Some(c) \/ uploadCall[c] # None
      /\ batchDone(c) =>
           SelectSeq(accepted[c], passes) =
             [i \in 1..Len(SelectSeq(trace[c], LAMBDA e : e.event = "onUpload"))
                |-> SelectSeq(trace[c], LAMBDA e : e.event = "onUpload")[i].file]

\* C11 witness: the weather control was handed two valid files, the upload of
\* the first was rejected, and the second was uploaded after that
C11_Witness ==
  /\ accepted["weather"] = <<CsvFile, CsvFile>>
  /\ Len(trace["weather"]) = 4
  /\ trace["weather"][2].event = "rejected"
  /\ trace["weather"][3].event = "onUpload"
  /\ trace["weather"][4].event = "resolved"
  /\ batchDone("weather")

\* the view state of the two pages that ask for a prediction
viewState == <<predictions, dateRange, currentYear, availableYears, selectedPiles,
               availablePiles, loading, files, dashboardDateRange, success,
               dashboardError, predicting>>

\* the stored date range is the one the /predict response that arrived last
\* came with
persistedIsLastArrived ==
  lastArrived # None /\ lastArrived[1] # None
    => localStorage.predictionDateRange = Some(JSONstringify(lastArrived[1][1]))

\* C12 as stated: once the request of the calendar on screen has been
\* answered, whatever other request was answered before or after it, the
\* stored predictionDateRange and the date range of the page are those of
\* the response that arrived last.
C12_AsStated ==
  fetchCall = "resolved"
    => /\ persistedIsLastArrived
       /\ dateRange = lastArrived[1]

\* C12: no response is dropped for being late: whenever a /predict response
\* with a date_range arrives, for Dashboard or for the calendar, on screen or
\* not, the stored predictionDateRange becomes that date_range, so the store
\* holds the data of the response that arrived last; a response for the
\* request of a page that has left the screen changes the store only, the
\* view state of the page on screen stays as its own request left it.
C12_LastArrivalIsPersisted ==
  [][/\ persistedIsLastArrived'
     /\ (orphanCalls'.triggerPrediction < orphanCalls.triggerPrediction
           \/ orphanCalls'.getPredictions < orphanCalls.getPredictions)
          => UNCHANGED viewState]_vars

\* C12 witness: the calendar was answered first, a request issued before by
\* a page that has left the screen was answered last with another date
\* range, which is now the stored one
C12_Witness ==
  /\ fetchCall = "resolved"
  /\ orphans(orphanCalls, orphanUploads) = 0
  /\ dateRange # None
  /\ lastArrived # None /\ lastArrived[1] # None
  /\ lastArrived[1] # dateRange
  /\ localStorage.predictionDateRange = Some(JSONstringify(lastArrived[1][1]))

\* C13 as stated: once a prediction fetch has succeeded, the 'predictions'
\* key of the storage holds the fetched list.
C13_AsStated ==
  fetchCall = "resolved" => localStorage.predictions = Some(JSONstringify(predictions))

\* C14: the evaluation request is issued only in a state whose stored
\* firesUploaded is 'true'; the stored flag changes only in the step in which
\* the upload of the fires control resolves (for a Dashboard that has left
\* the screen: in which an upload of its fires control settles), and then to
\* 'true'; so a
\* rejected fires upload and the uploads of the other controls leave it as it
\* was, and the compare button pressed without the flag raises the alert and
\* sends nothing.
C14_CompareGatedByFiresUpload ==
  [][/\ (evaluateCall # "pending" /\ evaluateCall' = "pending")
          => localStorage.firesUploaded = Some(TrueText)
     /\ localStorage'.firesUploaded # localStorage.firesUploaded
          => /\ \/ /\ uploadCall["fires"] # None /\ uploadCall'["fires"] = None
                   /\ lastUpload'["fires"] = "resolved"
                \/ \E upload \in BagToSet(orphanUploads) :
                     /\ upload.control = "fires"
                     /\ CopiesIn(upload, orphanUploads') < CopiesIn(upload, orphanUploads)
             /\ localStorage'.firesUploaded = Some(TrueText)
     /\ (uploadCall["fires"] # None /\ uploadCall'["fires"] = None
            /\ lastUpload'["fires"] = "resolved")
          => localStorage'.firesUploaded = Some(TrueText)
     /\ (alertText = None /\ alertText' # None /\ realFiresData = None
            /\ localStorage.firesUploaded # Some(TrueText) /\ evaluateCall # "pending")
          => evaluateCall' = evaluateCall]_vars

\* C14 witness: the fires file was uploaded on Dashboard, the upload of
\* another control of that Dashboard is still awaited after the page has
\* left the screen, and the calendar's compare button has sent the
\* evaluation request
C14_Witness ==
  /\ localStorage.firesUploaded = Some(TrueText)
  /\ evaluateCall = "pending"
  /\ \E upload \in BagToSet(orphanUploads) : upload.control # "fires"

\* the stored prediction list is missing or no JSON
noCachedPredictions ==
  localStorage.predictions = None \/ JSONparseThrows(localStorage.predictions[1])

\* C15 as stated: no exception escapes a handler that reads the storage, and
\* after a failed fetch with the stored list missing or unparsable the
\* prediction list is the empty default.
C15_AsStated ==
  /\ uncaught = {}
  /\ fetchCall = "rejected" /\ noCachedPredictions => predictions = <<>>

\* the text is the value of a field the body of the failed call carries
isFieldOfBody(text) ==
  \/ serviceError[1].message # None /\ text = serviceError[1].message[1]
  \/ serviceError[1].detail # None /\ text = serviceError[1].detail[1]

\* C16 as stated: when an upload, the prediction call or the evaluation call
\* is rejected with a body that carries `message` or `detail`, the text set
\* as the control's error, as Dashboard's error or alerted by the calendar
\* is the value of that field.
C16_AsStated ==
  [][/\ \A c \in Controls :
          (uploadCall[c] # None /\ lastUpload'[c] = "rejected" /\ uploadCall'[c] = None
             /\ dashboardMounted)
            => error'[c] # None /\ Len(error'[c][1]) = 1 /\ isFieldOfBody(error'[c][1][1])
     /\ (predictCall = "pending" /\ predictCall' = "rejected" /\ dashboardMounted)
          => /\ dashboardError' # None /\ Len(dashboardError'[1]) = 1
             /\ isFieldOfBody(dashboardError'[1][1])
     /\ (evaluateCall = "pending" /\ evaluateCall' = "rejected")
          => alertText' # None /\ isFieldOfBody(alertText'[1])]_vars

MissingValues == {JsNull, JsUndefined, JsNaN}

\* C17: formatNumber called with NaN, null or undefined returns the
\* placeholder, whatever `decimals` is, and so never the text 'NaN'; called
\* with a number it returns that number's digits.
C17_FormatNumberPlaceholder ==
  formatted # None =>
    /\ formatArg \in MissingValues
         => formatted[1].formatNumber = <<Dash>> /\ formatted[1].formatNumber # <<"NaN">>
    /\ formatArg.kind = "number"
         => /\ Len(formatted[1].formatNumber) = 3
            /\ formatted[1].formatNumber[1] = "fixed"
            /\ formatted[1].formatNumber[3] = formatDecimals

\* C17 witness: formatNumber(NaN, 2) has returned the placeholder
C17_Witness ==
  /\ formatArg = JsNaN /\ formatDecimals = 2
  /\ formatted # None /\ formatted[1].formatNumber = <<Dash>>

\* the result is a text that is neither empty nor 'NaN', and nothing was thrown
isPlaceholder(result) ==
  /\ Len(result) = 1
  /\ result[1] \notin {"", "NaN"}

\* C18 as stated: every formatter called with null, undefined or NaN returns
\* a fixed text that is neither blank nor 'NaN', the same for the three.
C18_AsStated ==
  (formatted # None /\ formatArg \in MissingValues) =>
    /\ isPlaceholder(formatted[1].formatDate)
    /\ isPlaceholder(formatted[1].formatDateTime)
    /\ isPlaceholder(formatted[1].formatNumber)
    /\ isPlaceholder(formatted[1].formatPercentage)
    /\ isPlaceholder(formatted[1].formatValue)
    /\ isPlaceholder(formatted[1].formatConfidence)
    /\ isPlaceholder(formatted[1].getRiskLabel)
    /\ formatted[1] = [formatDate |-> formatDate(JsNull, timeZone),
                       formatDateTime |-> formatDateTime(JsNull, timeZone),
                       formatValue |-> formatValue(JsNull, Dash),
                       formatNumber |-> formatNumber(JsNull, formatDecimals, Dash),
                       formatPercentage |-> formatPercentage(JsNull, formatDecimals, Dash),
                       formatConfidence |-> formatConfidence(JsNull, Dash),
                       getRiskLabel |-> getRiskLabel(JsNull)]

\* the text starts with 'NaN'
showsNaN(text) == text[1] = "NaN"

graceful(view) == ~view.throws /\ \A i \in 1..Len(view.texts) : ~showsNaN(view.texts[i])

\* C19 as stated: for a metrics object, whatever fields it lacks, neither
\* the calendar's metrics panel nor the table of ModelMetrics nor
\* MetricsChart throws or shows 'NaN', and neither does the summary of
\* calculateMetricsSummary.
C19_AsStated ==
  /\ (rendered # None /\ metrics # None)
       => graceful(rendered[1].panel) /\ graceful(rendered[1].table)
            /\ graceful(rendered[1].chart)
  /\ (summaryReturned /\ metrics # None)
       => ~showsNaN(summary[1].mae) /\ ~showsNaN(summary[1].accuracyPm2)

\* the colour the claim gives a risk level
colourOfLevel(level) ==
  CASE level = "critical" -> "#dc2626"
    [] level = "high" -> "#ea580c"
    [] level = "medium" -> "#eab308"
    [] level = "low" -> "#16a34a"

\* C20: processCalendarEvents gives one entry per prediction, in order; the
\* entry's backgroundColor and borderColor are the colour of the record's
\* risk_level (critical red, high orange, medium yellow, low green), and its
\* extendedProps hold every field of the record with the record's value.
\* In prediction mode the entries on the calendar are such entries.
C20_EntriesColouredByRiskCarryRecord ==
  LET entries == processCalendarEvents(predictions)
  IN /\ Len(entries) = Len(predictions)
     /\ \A i \in 1..Len(predictions) :
          /\ predictions[i].risk_level \in RiskLevels
               => /\ entries[i].backgroundColor = colourOfLevel(predictions[i].risk_level)
                  /\ entries[i].borderColor = colourOfLevel(predictions[i].risk_level)
          /\ \A field \in DOMAIN predictions[i] :
               /\ field \in DOMAIN entries[i].extendedProps
               /\ entries[i].extendedProps[field] = predictions[i][field]
     /\ ~comparisonShown(showComparison, realFiresData)
          => \A k \in 1..Len(events) : \E i \in 1..Len(entries) : events[k] = entries[i]

\* C20 witness: the calendar shows a yellow entry for a medium record and an
\* orange one for a high record of another pile
C20_Witness ==
  /\ ~showComparison
  /\ Len(events) = 2
  /\ events[1].extendedProps.risk_level = "medium"
  /\ events[1].backgroundColor = "#eab308"
  /\ events[2].extendedProps.risk_level = "high"
  /\ events[2].extendedProps.pile_id = 2
  /\ events[2].extendedProps.coal_grade = "A1"
  /\ events[2].borderColor = "#ea580c"

\* how the pages present the risk of a prediction: the colours of its
\* calendar entry, its badge, its matrix card and the bucket it is counted in
riskPresentation(p) ==
  [backgroundColor |-> calendarEntry(p).backgroundColor,
   borderColor |-> calendarEntry(p).borderColor,
   badge |-> RiskBadge(p.risk_level),
   card |-> pileCard(p),
   bucket |-> [statsOf(<<p>>) EXCEPT !.total = 0]]

\* C21: the risk presentation of a prediction is a function of its
\* risk_level alone: two predictions of the list with the same risk_level,
\* whatever their days to fire, get the same entry colours, badge, card class
\* and bucket, and the entries on the calendar carry the colour of the
\* risk_level they carry.
C21_RiskPresentationFromRiskLevelOnly ==
  /\ \A i, j \in 1..Len(predictions) :
       predictions[i].risk_level = predictions[j].risk_level
         => riskPresentation(predictions[i]) = riskPresentation(predictions[j])
  /\ ~comparisonShown(showComparison, realFiresData)
       => \A k \in 1..Len(events) :
            events[k].extendedProps.risk_level \in RiskLevels
              => events[k].backgroundColor = colourOfLevel(events[k].extendedProps.risk_level)

\* C21 witness: two entries of one pile and one risk_level that differ in
\* the days to fire are on the calendar in the same colour
C21_Witness ==
  /\ ~showComparison
  /\ Len(events) = 2
  /\ events[1].extendedProps.risk_level = events[2].extendedProps.risk_level
  /\ events[1].extendedProps.pile_id = events[2].extendedProps.pile_id
  /\ events[1].extendedProps.daysToFire # events[2].extendedProps.daysToFire
  /\ events[1].backgroundColor = events[2].backgroundColor

\* the three files a prediction needs are on record
requiredFilesRecorded ==
  files.supplies # None /\ files.temperature # None /\ Len(files.weather) > 0

\* C22: whatever uploads and removals came before, a prediction request
\* goes out only from a page that has the supplies file, the temperature
\* file and at least one weather file on record; on any other page
\* handlePredict sets the error message and asks for nothing; and once the
\* last weather file is removed the page offers no prediction.
C22_PredictOnlyWithRequiredFiles ==
  [][/\ (predictCall # "pending" /\ predictCall' = "pending") => requiredFilesRecorded
     /\ handlePredict(files).request <=> requiredFilesRecorded
     /\ ~requiredFilesRecorded => handlePredict(files).error = Some(RequiredFilesMissing)
     /\ (Len(files.weather) = 1 /\ Len(files'.weather) = 0 /\ dashboardMounted')
          => ~canPredict(files') /\ ~handlePredict(files').request]_vars

\* C22 witness: the supplies and temperature files are on record, the only
\* weather file was uploaded and removed again, and no request is out
C22_Witness ==
  /\ dashboardMounted
  /\ files.supplies # None /\ files.temperature # None
  /\ lastUpload["weather"] = "resolved" /\ files.weather = <<>>
  /\ ~handlePredict(files).request
  /\ predictCall = "idle"

\* p is the first record of the list with this pile id
firstOfPile(preds, p, pileId) ==
  \E i \in 1..Len(preds) :
    /\ preds[i] = p
    /\ p.pile_id = pileId
    /\ \A j \in 1..(i - 1) : preds[j].pile_id # pileId

\* C23: a click on an entry leaves selectedPrediction at the first record
\* of the list with the entry's pileId, or at nothing when the list has no
\* record of that pile; so whenever the detail card is up it shows a record
\* of the pile of the entry clicked last, the first one of that pile.
C23_DetailShowsFirstRecordOfClickedPile ==
  [][/\ clickedEntry' # clickedEntry
          => IF \E i \in 1..Len(predictions) :
                   predictions[i].pile_id = clickedEntry'[1].extendedProps.pileId
             THEN /\ selectedPrediction' # None
                  /\ firstOfPile(predictions, selectedPrediction'[1],
                                 clickedEntry'[1].extendedProps.pileId)
             ELSE selectedPrediction' = None
     /\ (selectedPrediction' # None)
          => /\ clickedEntry' # None
             /\ firstOfPile(predictions', selectedPrediction'[1],
                            clickedEntry'[1].extendedProps.pileId)]_vars

\* C23 witness: the entry of the second record of a pile was clicked and
\* the card shows the first record of that pile, a different one
C23_Witness ==
  /\ Len(predictions) = 2 /\ Len(events) = 2
  /\ ~showComparison
  /\ predictions[1].pile_id = predictions[2].pile_id
  /\ predictions[1] # predictions[2]
  /\ clickedEntry = Some(events[2])
  /\ selectedPrediction = Some(predictions[1])

\* C24: with the comparison switched on over an empty list of matches the
\* calendar shows the ordinary list, the risk-coloured entries of the
\* predictions of the selected piles in the current year, the very list it
\* shows with the comparison switched off.
C24_EmptyComparisonShowsPredictions ==
  (showComparison /\ realFiresData = Some(<<>>))
    => /\ events = eventsOf(predictions, selectedPiles, currentYear, FALSE, realFiresData)
       /\ events = SelectSeq(processCalendarEvents(
                                SelectSeq(predictions,
                                          LAMBDA p : pileIncluded(selectedPiles, p))),
                              LAMBDA e : inYear(e, currentYear))
       /\ \A k \in 1..Len(events) :
            events[k].backgroundColor = getRiskColor(events[k].extendedProps.risk_level)

\* C24 witness: the evaluation answered with an empty list, the comparison
\* is on and the calendar shows a prediction
C24_Witness ==
  /\ showComparison
  /\ realFiresData = Some(<<>>)
  /\ evaluateCall = "resolved"
  /\ Len(events) > 0
  /\ events[1].id = <<"pile_", predictions[1].pile_id>>

\* the places of the trace of control c where a file was refused by the
\* validation or its upload failed, and those where an upload succeeded
failures(c) == {i \in 1..Len(trace[c]) : trace[c][i].event \in {"refused", "rejected"}}

successes(c) == {i \in 1..Len(trace[c]) : trace[c][i].event = "resolved"}

\* the message the handler sets for the failure at place i of the trace
messageOf(c, i) ==
  IF trace[c][i].event = "refused"
  THEN Some(<<trace[c][i].file.name, ": ",
              validateCSVFile(trace[c][i].file, viteMaxFileSize).error[1]>>)
  ELSE Some(<<responseInterceptor(serviceError).message>>)

\* C25: when the handler of a control in multiple mode has finished with a
\* batch of files, the message under the control is that of the last file
\* of the batch that the validation refused or whose upload failed,
\* provided no later file of the batch was uploaded successfully; otherwise
\* there is no message.
C25_MessageAfterBatchIsLastFailure ==
  \A c \in Controls :
    (multiple(c) /\ dashboardMounted /\ batchDone(c) /\ trace[c] # <<>>)
      => IF failures(c) = {} THEN error[c] = None
         ELSE LET last == CHOOSE i \in failures(c) : \A j \in failures(c) : j <= i
              IN IF \E k \in successes(c) : k > last
                 THEN error[c] = None
                 ELSE error[c] = messageOf(c, last)

\* C25 witness: the first file of a batch was refused by the validation,
\* the second was uploaded, and no message is left
C25_Witness ==
  /\ dashboardMounted /\ batchDone("weather")
  /\ Len(trace["weather"]) = 3
  /\ trace["weather"][1].event = "refused"
  /\ trace["weather"][3].event = "resolved"
  /\ error["weather"] = None

\* the list is in ascending order and holds no value twice
ascending(list) == \A i, j \in 1..Len(list) : i < j => list[i] < list[j]

\* C26: the fetch that succeeds leaves availablePiles the distinct pile ids
\* of the predictions in ascending order and selectedPiles the set of all
\* of them; the checkboxes and the two buttons keep selectedPiles within
\* availablePiles; and a checkbox operated twice gives the selection back.
C26_SelectionWithinAvailablePiles ==
  [][/\ (fetchCall = "pending" /\ fetchCall' = "resolved")
          => /\ ascending(availablePiles')
             /\ Range(availablePiles') = {predictions'[i].pile_id : i \in 1..Len(predictions')}
             /\ selectedPiles' = Range(availablePiles')
     /\ selectedPiles' \subseteq Range(availablePiles')
     /\ \A p \in Range(availablePiles) :
          /\ toggled(selectedPiles, p) \subseteq Range(availablePiles)
          /\ toggled(toggled(selectedPiles, p), p) = selectedPiles
          /\ toggled(selectedPiles, p) # selectedPiles]_vars

\* C26 witness: the list named pile 2 before pile 1, both are on offer in
\* ascending order, and pile 1 has been unticked
C26_Witness ==
  /\ Len(predictions) = 2
  /\ predictions[1].pile_id = 2 /\ predictions[2].pile_id = 1
  /\ availablePiles = <<1, 2>>
  /\ selectedPiles = {2}

\* the script has started the process
started(process) == process # "none"

\* C27: the frontend is started only once the backend has been started,
\* was found alive and has answered a health request, in one of the ten
\* attempts; and on a machine where port 8000 or 5173 is in use or python3,
\* node or npm is missing the script starts neither service and, once it
\* has ended, has ended with a failure.
C27_FrontendAfterHealthyBackend ==
  /\ started(frontend)
       => /\ started(backend) /\ backendSeenAlive /\ healthAnswered
          /\ attempt \in 1..HealthAttempts
  /\ (portsInUse # {} \/ commandsMissing # {})
       => /\ ~started(backend) /\ ~started(frontend)
          /\ scriptPc \in {"checkPorts", "checkDependencies", "exited"}
          /\ scriptPc = "exited" => exitStatus = Some(1)

\* C27 witness: the backend answered at the last attempt and the frontend
\* runs
C27_Witness ==
  /\ frontend = "alive" /\ backend = "alive"
  /\ healthAnswered /\ attempt = HealthAttempts
  /\ scriptPc = "wait"

\* C28 as stated: a script that ended because the backend did not answer
\* the health check in ten attempts, or because the frontend was not alive
\* after its start, has left no service running and ended with status 1
C28_AsStated ==
  (scriptPc = "exited" /\ exitCause \in {"healthTimeout", "frontendDied"})
    => /\ backend # "alive" /\ frontend # "alive"
       /\ exitStatus = Some(1)

\* an upload issued by control c is pending
pending(c) == uploadCall[c] # None

\* C29: a control on the page shows uploading exactly while an upload it
\* issued is pending (an upload still awaited by the control of a Dashboard
\* that has left the screen is not one of its own); a drop is taken by a control only when it has no
\* upload pending and no batch unfinished, so no control ever has two
\* uploads in flight; and a control whose handler has finished is not
\* uploading.
C29_UploadingWhilePending ==
  [][\A c \in Controls :
       /\ dashboardMounted' => (uploading'[c] <=> uploadCall'[c] # None)
       /\ (dropped' > dropped /\ queue'[c] # queue[c])
            => ~pending(c) /\ queue[c] = <<>> /\ running = None
       /\ (pending(c) /\ uploadCall'[c] # None) => uploadCall'[c] = uploadCall[c]
       /\ (queue'[c] = <<>> /\ uploadCall'[c] = None /\ running' # Some(c))
            => ~uploading'[c]]_vars

\* C29 witness: Dashboard was left with an upload of its weather control
\* awaited and opened again; the weather control of the page now on screen
\* is uploading the second file of a batch, its one upload pending, while
\* the upload of the control that has left the screen is still awaited
C29_Witness ==
  /\ dashboardMounted
  /\ uploading["weather"] /\ pending("weather")
  /\ Len(trace["weather"]) = 3
  /\ trace["weather"][2].event = "rejected"
  /\ \E upload \in BagToSet(orphanUploads) : upload.control = "weather"

\* the stored record carries a date, and a valid one
datedRecords ==
  {i \in 1..Len(matrixPredictions) :
     /\ matrixPredictions[i].predicted_fire_date.kind = "string"
     /\ matrixPredictions[i].predicted_fire_date.ymd # <<>>}

\* C30: on the matrix page availableDates lists the dates of the stored
\* records that carry a valid one, each once, earliest first; the page
\* opens on the first of them, and selectedDate is never anything but none
\* or one of them; so the listing and the counts of a date take in records
\* dated at it only, never one without a date or with an invalid date (the
\* listing and the counts are those of the selected date once the effects
\* of the page have run).
C30_DatesAreTheValidOnesInOrder ==
  [][/\ matrixMounted' =>
          /\ \A i, j \in 1..Len(availableDates') :
               i < j => DateBefore(availableDates'[i], availableDates'[j])
          /\ Range(availableDates') =
               {matrixPredictions'[i].predicted_fire_date : i \in datedRecords'}
          /\ selectedDate' = None \/ selectedDate'[1] \in Range(availableDates')
          /\ Range(pilesForDate') \subseteq {matrixPredictions'[i] : i \in datedRecords'}
          /\ dateStats'.total = Len(pilesForDate')
          /\ \A i \in 1..Len(pilesForDate') :
               pilesForDate'[i].predicted_fire_date \in Range(availableDates')
          /\ matrixEffects' = "none" =>
               dateStats'.total =
                 IF selectedDate' = None THEN 0
                 ELSE Cardinality({i \in datedRecords' :
                                     matrixPredictions'[i].predicted_fire_date = selectedDate'[1]})
     /\ (~matrixMounted /\ matrixMounted') => selectedDate' = None
     /\ (matrixEffects = "mount" /\ matrixEffects' # "mount" /\ matrixMounted')
          => selectedDate' = IF availableDates' = <<>> THEN None
                            ELSE Some(availableDates'[1])]_vars

\* C30 witness: of two stored records the first has no date; the page
\* offers the date of the second and lists that record alone
C30_Witness ==
  /\ matrixMounted
  /\ matrixEffects = "none"
  /\ Len(matrixPredictions) = 2
  /\ matrixPredictions[1].predicted_fire_date = NoDate
  /\ availableDates = <<matrixPredictions[2].predicted_fire_date>>
  /\ selectedDate = Some(availableDates[1])
  /\ pilesForDate = <<matrixPredictions[2]>>
  /\ dateStats.total = 1

====
